---- MODULE Spec2Model ----
(***************************************************************************)
(* State-machine model of the `arkham` package: AddressCache and           *)
(* TokenCache (arkham/cache.py), DataProcessor (arkham/data_processor.py)  *)
(* and the background polling of ArkhamMonitor (arkham/arkham_monitor.py). *)
(*                                                                         *)
(* Python values are encoded as follows.  A str is a TLA+ string; its      *)
(* characters are reached with SubSeq(s, i, i) and ordered by code point.  *)
(* None is the reserved string None, which no input string equals.  A      *)
(* dict payload is a record whose absent keys hold None; a set is a set;   *)
(* a list is a sequence; a dict used as a map is a function whose DOMAIN   *)
(* is the set of keys.                                                     *)
(***************************************************************************)
EXTENDS Integers, Sequences, FiniteSets, TLC

VARIABLES
    cache,            \* AddressCache._cache: identifier -> [name, is_real]
    name_to_ids,      \* AddressCache._name_to_ids: display name -> set of identifiers
    id_to_symbol,     \* TokenCache._id_to_symbol: token id -> symbol
    symbol_to_ids,    \* TokenCache._symbol_to_ids: symbol -> set of token ids
    last_call,        \* history: the last cache operation called and its arguments
    ever_real,        \* history: identifiers some effective update gave is_real_name = True
    registered,       \* history: <<token id, stored symbol>> of every effective TokenCache.update
    last_record,      \* the value the last process_transaction call returned
    last_processed,   \* ArkhamMonitor._last_processed_transactions
    monitor_thread,   \* ArkhamMonitor._monitor_thread: a thread, or 0 for None
    stop_flag,        \* ArkhamMonitor._stop_monitor_flag (threading.Event)
    threads,          \* per thread running _monitoring_loop: its position and locals
    main_pc,          \* the caller: "idle", or "joining" inside stop_background_monitoring
    cycle,            \* history: what the polling cycle ended by the last step reported
    stopped,          \* history: the loops that were alive when stop set the flag
    prev_txids,       \* history: the _txid of every record of the previous batch of loop 1
    upd,              \* the AddressCache.update call in progress: its position and locals
    observed,         \* what the last foreground read of the address cache returned
    last_result,      \* the last process_transactions_response call: its batch and outcome
    filt,             \* a TransactionFilter: its criteria and resolved id sets
    filt_op,          \* history: "update" after filter.update, "cache" after a cache update
    last_args,        \* history: the arguments of the last filter.update call
    keys_before,      \* history: the criteria in force just before the last filter.update
    norm_last,        \* history: the record the last normalisation of the id study returned
    norm_before,      \* history: the record the normalisation before it returned
    exported,         \* history: what the last get_full_cache_state returned, while the caches are as then
    loaded,           \* the caches of a new monitor after load_full_cache_state(exported)
    called,           \* the last get_transactions or initialize_cache call and what the caller got
    singles,          \* history: the transfers given to process_transaction one by one, and the records
    formatted,        \* the last value given to _format_value and the text returned
    setting,          \* the caller's thread inside filter.update: the line it is at, its arguments
    polling,          \* the polling thread inside get_api_params: the line it is at, params so far
    completed,        \* history: the parameters of the filter as each complete update left it
    asked             \* the last query made of the caches or the filter; none after an update

addrVars == <<cache, name_to_ids>>
tokVars  == <<id_to_symbol, symbol_to_ids>>
histVars == <<last_call, ever_real, registered>>
procVars == <<last_record>>
monVars  == <<last_processed, monitor_thread, stop_flag, threads, main_pc,
              cycle, stopped, prev_txids>>
concVars == <<upd, observed>>
batchVars == <<last_result>>
filtVars == <<filt, filt_op, last_args, keys_before>>
synthVars == <<norm_last, norm_before>>
roundVars == <<exported, loaded>>
callVars == <<called>>
pairVars == <<singles>>
fmtVars == <<formatted>>
shareVars == <<setting, polling, completed>>
queryVars == <<asked>>
lateVars == <<fmtVars, shareVars, queryVars>>
restVars == <<filtVars, synthVars, roundVars, callVars, pairVars, lateVars>>
otherVars == <<concVars, batchVars, restVars>>
vars     == <<addrVars, tokVars, histVars, procVars, monVars, otherVars>>

---------------------------------------------------------------------------
(* Python values *)

None == "<None>"
NA   == "N/A"

\* a JSON number (non-zero) where the code expects a str: it is truthy and
\* has none of the str methods
Number == "<number>"

\* `not x` for x a str, a non-zero number or None
Falsy(x) == x = None \/ x = ""

\* Printable ASCII in code point order: 32..95 and 97..126 (the module's
\* strings cannot hold code point 96, the grave accent, which no input uses).
AsciiLo == " !\"#$%&'()*+,-./0123456789:;<=>?@ABCDEFGHIJKLMNOPQRSTUVWXYZ[\\]^_"
AsciiHi == "abcdefghijklmnopqrstuvwxyz{|}~"

CharAt(s, i) == SubSeq(s, i, i)

\* code point of every character of the table
OrdTable ==
    [c \in {CharAt(AsciiLo, i) : i \in 1..Len(AsciiLo)}
           \cup {CharAt(AsciiHi, i) : i \in 1..Len(AsciiHi)} |->
        IF \E i \in 1..Len(AsciiLo) : CharAt(AsciiLo, i) = c
        THEN 31 + (CHOOSE i \in 1..Len(AsciiLo) : CharAt(AsciiLo, i) = c)
        ELSE 96 + (CHOOSE i \in 1..Len(AsciiHi) : CharAt(AsciiHi, i) = c)]

\* ord(c) for a one-character string
Ord(c) == OrdTable[c]

\* chr(n)
Chr(n) == IF n <= 95 THEN CharAt(AsciiLo, n - 31) ELSE CharAt(AsciiHi, n - 96)

UpperChar(c) == IF Ord(c) >= 97 /\ Ord(c) <= 122 THEN Chr(Ord(c) - 32) ELSE c
LowerChar(c) == IF Ord(c) >= 65 /\ Ord(c) <= 90 THEN Chr(Ord(c) + 32) ELSE c

RECURSIVE UpperOf(_)
\* str.upper(), character by character
UpperOf(s) == IF Len(s) = 0 THEN ""
              ELSE UpperChar(CharAt(s, 1)) \o UpperOf(SubSeq(s, 2, Len(s)))

RECURSIVE LowerOf(_)
\* str.lower(), character by character
LowerOf(s) == IF Len(s) = 0 THEN ""
              ELSE LowerChar(CharAt(s, 1)) \o LowerOf(SubSeq(s, 2, Len(s)))

\* The strings the specifications convert often; their conversions are
\* computed once (by UpperOf and LowerOf) and looked up afterwards.
CommonStrings ==
    {"btc", "BTC", "Bitcoin", "BITCOIN", "bitcoin", "ETH", "eth", "WETH", "weth",
     "USDT", "usdt", "N/A", "ethereum", "ETHEREUM", "cex", "Cex"}
UpperMemo == [s \in CommonStrings |-> UpperOf(s)]
LowerMemo == [s \in CommonStrings |-> LowerOf(s)]

\* str.upper()
Upper(s) == IF s \in CommonStrings THEN UpperMemo[s] ELSE UpperOf(s)

\* str.lower()
Lower(s) == IF s \in CommonStrings THEN LowerMemo[s] ELSE LowerOf(s)

RECURSIVE StrLess(_, _)
\* a < b on str: lexicographic by code point
StrLess(a, b) ==
    IF Len(b) = 0 THEN FALSE
    ELSE IF Len(a) = 0 THEN TRUE
    ELSE IF CharAt(a, 1) = CharAt(b, 1)
         THEN StrLess(SubSeq(a, 2, Len(a)), SubSeq(b, 2, Len(b)))
         ELSE Ord(CharAt(a, 1)) < Ord(CharAt(b, 1))

RECURSIVE Sorted(_)
\* sorted(list(S)) for a set S of str
Sorted(S) ==
    IF S = {} THEN <<>>
    ELSE LET m == CHOOSE x \in S : \A y \in S : x = y \/ StrLess(x, y)
         IN  <<m>> \o Sorted(S \ {m})

\* d.get(k, default) on a map
Get(d, k, default) == IF k \in DOMAIN d THEN d[k] ELSE default

\* d with key k removed
Del(d, k) == [x \in DOMAIN d \ {k} |-> d[x]]

\* d[k] = v
Put(d, k, v) == [x \in DOMAIN d \cup {k} |-> IF x = k THEN v ELSE d[x]]

EmptyMap == [x \in {} |-> {}]

---------------------------------------------------------------------------
(* Bounds and input universes *)

NumIds   == 2
NumNames == 2

IdPool   == <<"0xB2", "0xA1", "0xC3", "0xD4">>
NamePool == <<"Kraken", "Binance", "binance", "Alpha">>

Ids   == {IdPool[k] : k \in 1..NumIds}
Names == {NamePool[k] : k \in 1..NumNames}

\* arguments of AddressCache.update
IdentifierArgs  == Ids \cup {None, "", NA}
DisplayNameArgs == Names \cup {"", NA}

---------------------------------------------------------------------------
(* AddressCache (arkham/cache.py) *)

\* AddressCache.__init__
AddressCache_init == [cache |-> EmptyMap, name_to_ids |-> EmptyMap]

\* lines 23-29 with the removal from the old name's bucket left out
DiscardOld_skip(n2i, identifier, old_name, name_to_store) == n2i

\* lines 26-29: drop identifier from the old name's bucket, delete an emptied bucket
DiscardOld(n2i, identifier, old_name, name_to_store) ==
    IF old_name # name_to_store /\ old_name \in DOMAIN n2i
    THEN IF n2i[old_name] \ {identifier} = {}
         THEN Del(n2i, old_name)
         ELSE Put(n2i, old_name, n2i[old_name] \ {identifier})
    ELSE n2i

\* line 34 with the incoming flag overwriting the stored one
MergeReal_overwrite(old_is_real, is_real_name) == is_real_name

\* line 34: existing_entry['is_real'] or is_real_name
MergeReal(old_is_real, is_real_name) == old_is_real \/ is_real_name

\* line 16 without the fallback to the identifier
NameToStore_nofallback(identifier, display_name) == display_name

\* line 16: display_name if display_name and display_name != "N/A" else identifier
NameToStore(identifier, display_name) ==
    IF ~Falsy(display_name) /\ display_name # NA THEN display_name ELSE identifier

\* lines 13-14 testing for "N/A" only
SkipsUpdate_naonly(identifier) == identifier = NA

\* lines 13-14: not identifier or identifier == "N/A"
SkipsUpdate(identifier) == Falsy(identifier) \/ identifier = NA

\* lines 31 and 39 keeping the name an existing entry already has
AddressCache_update_keepname(st, identifier, display_name, is_real_name) ==
    IF SkipsUpdate(identifier) THEN st
    ELSE IF identifier \in DOMAIN st.cache
    THEN [cache |-> Put(st.cache, identifier,
                        [name |-> st.cache[identifier].name,
                         is_real |-> MergeReal(st.cache[identifier].is_real,
                                               is_real_name)]),
          name_to_ids |-> st.name_to_ids]
    ELSE [cache |-> Put(st.cache, identifier,
                        [name |-> NameToStore(identifier, display_name),
                         is_real |-> is_real_name]),
          name_to_ids |-> Put(st.name_to_ids, NameToStore(identifier, display_name),
                              Get(st.name_to_ids,
                                  NameToStore(identifier, display_name), {})
                              \cup {identifier})]

\* AddressCache.update on the cache state st = [cache, name_to_ids]
AddressCache_update(st, identifier, display_name, is_real_name) ==
    IF SkipsUpdate(identifier) THEN st
    ELSE
    LET name_to_store == NameToStore(identifier, display_name)
        existing == identifier \in DOMAIN st.cache
        n2i1 == IF existing
                THEN DiscardOld(st.name_to_ids, identifier,
                                st.cache[identifier].name, name_to_store)
                ELSE st.name_to_ids
        entry == IF existing
                 THEN [name |-> name_to_store,
                       is_real |-> MergeReal(st.cache[identifier].is_real, is_real_name)]
                 ELSE [name |-> name_to_store, is_real |-> is_real_name]
    IN  [cache |-> Put(st.cache, identifier, entry),
         name_to_ids |-> Put(n2i1, name_to_store,
                             Get(n2i1, name_to_store, {}) \cup {identifier})]

\* AddressCache.get_name
get_name(c, identifier) == IF identifier \in DOMAIN c THEN c[identifier].name ELSE None

\* AddressCache.get_identifiers_by_name
get_identifiers_by_name(n2i, display_name) == Get(n2i, display_name, {})

\* the names the second loop of get_all_names adds, with the realness test left out
RealByBucket_any(c, n2i) == {n \in DOMAIN n2i : n2i[n] # {}}

\* get_all_names, second loop: names of the reverse map with a real identifier
RealByBucket(c, n2i) ==
    {n \in DOMAIN n2i : \E i \in n2i[n] : i \in DOMAIN c /\ c[i].is_real}

\* AddressCache.get_all_names
get_all_names(c, n2i) ==
    LET real_names == {c[i].name : i \in {j \in DOMAIN c : c[j].is_real}}
    IN  Sorted(real_names \cup RealByBucket(c, n2i))

\* lines 74-76 returning after the first name of the list
find_identifiers_by_names_first(n2i, names) ==
    IF names = <<>> THEN {} ELSE get_identifiers_by_name(n2i, Head(names))

RECURSIVE find_identifiers_by_names(_, _)
\* AddressCache.find_identifiers_by_names, names a sequence
find_identifiers_by_names(n2i, names) ==
    IF names = <<>> THEN {}
    ELSE get_identifiers_by_name(n2i, Head(names))
         \cup find_identifiers_by_names(n2i, Tail(names))

---------------------------------------------------------------------------
(* TokenCache (arkham/cache.py) *)

NumTokenIds == 2

TokenIdPool == <<"weth-on-eth", "bitcoin", "ethereum", "tether">>
TokenIds    == {TokenIdPool[k] : k \in 1..NumTokenIds}

\* arguments of TokenCache.update
TokenIdArgs == TokenIds \cup {None, "", NA}
SymbolArgs  == {None, "btc", "BITCOIN", "WETH"}

\* TokenCache._token_synonyms
token_synonyms ==
    [syn \in {"BTC", "BITCOIN", "ETH", "WETH"} |->
        IF syn \in {"BTC", "BITCOIN"} THEN "BITCOIN" ELSE "WETH"]

\* TokenCache.__init__ with _update_synonyms: an empty bucket per synonym target
TokenCache_init ==
    [id_to_symbol |-> EmptyMap,
     symbol_to_ids |->
        [norm \in {token_synonyms[syn] :
                     syn \in {x \in DOMAIN token_synonyms : x # token_synonyms[x]}}
            |-> {}]]

\* TokenCache._get_normalized_symbol
get_normalized_symbol(symbol) == Get(token_synonyms, Upper(symbol), Upper(symbol))

\* lines 131-133 left out: the other aliases of the group get nothing
OtherSynonyms_none(normalized_symbol, symbol_to_store) == {}

\* lines 131-133: the other synonyms that map to the same normalized form
OtherSynonyms(normalized_symbol, symbol_to_store) ==
    {syn \in DOMAIN token_synonyms :
        /\ token_synonyms[syn] = normalized_symbol
        /\ syn # normalized_symbol
        /\ syn # symbol_to_store}

\* line 119 building a new id map around the token instead of adding to it
TokenCache_update_replace(st, token_id, symbol) ==
    IF Falsy(token_id) \/ token_id = NA THEN st
    ELSE [id_to_symbol |-> Put(EmptyMap, token_id,
                               IF ~Falsy(symbol) THEN Upper(symbol) ELSE NA),
          symbol_to_ids |-> st.symbol_to_ids]

\* TokenCache.update on the cache state st = [id_to_symbol, symbol_to_ids]
TokenCache_update(st, token_id, symbol) ==
    IF Falsy(token_id) \/ token_id = NA THEN st
    ELSE
    LET symbol_to_store == IF ~Falsy(symbol) THEN Upper(symbol) ELSE NA
        normalized_symbol == get_normalized_symbol(symbol_to_store)
        buckets == {normalized_symbol}
                   \cup (IF symbol_to_store # normalized_symbol
                         THEN {symbol_to_store} ELSE {})
                   \cup OtherSynonyms(normalized_symbol, symbol_to_store)
    IN  [id_to_symbol |-> Put(st.id_to_symbol, token_id, symbol_to_store),
         symbol_to_ids |->
            [sym \in DOMAIN st.symbol_to_ids \cup buckets |->
                IF sym \in buckets
                THEN Get(st.symbol_to_ids, sym, {}) \cup {token_id}
                ELSE st.symbol_to_ids[sym]]]

\* TokenCache.get_symbol
get_symbol(i2s, token_id) == Get(i2s, token_id, None)

\* TokenCache.get_ids
get_ids(s2i, symbol) == Get(s2i, Upper(symbol), {})

\* the symbol TokenCache.update stores for its argument (line 116)
StoredSymbol(symbol) == IF ~Falsy(symbol) THEN Upper(symbol) ELSE NA

---------------------------------------------------------------------------
(* Raw payloads of the API (dicts decoded from JSON) *)

\* The value of an 'address' key: absent, a str, or a dict with its own
\* 'address' key.
AbsentAddr     == [kind |-> "none", str |-> None, address |-> None]
FlatAddr(a)    == [kind |-> "str",  str |-> a,    address |-> None]
NestedAddr(a)  == [kind |-> "dict", str |-> None, address |-> a]

NoEntity       == [kind |-> "none", name |-> None, type |-> None]
Entity(n, t)   == [kind |-> "dict", name |-> n, type |-> t]
NoLabel        == [kind |-> "none", name |-> None]
Label(n)       == [kind |-> "dict", name |-> n]

\* The value of fromAddress / toAddress, or of the 'address' key of an entry of
\* fromAddresses / toAddresses: absent, a bare str, or a dict.
PNone == [kind |-> "none", str |-> None, address |-> AbsentAddr,
          arkhamEntity |-> NoEntity, arkhamLabel |-> NoLabel]
PStr(a) == [kind |-> "str", str |-> a, address |-> AbsentAddr,
            arkhamEntity |-> NoEntity, arkhamLabel |-> NoLabel]
PDict(addr, entity, label) ==
    [kind |-> "dict", str |-> None, address |-> addr,
     arkhamEntity |-> entity, arkhamLabel |-> label]

\* An entry of fromAddresses / toAddresses that is no object (a str, a
\* number): it has no .get
NotAnObject == [kind |-> "scalar", str |-> None, address |-> AbsentAddr,
                arkhamEntity |-> NoEntity, arkhamLabel |-> NoLabel]

\* The value of fromAddresses / toAddresses: absent, or a list of entries,
\* each given by the value of its 'address' key, or NotAnObject.
NoList      == [kind |-> "none", items |-> <<>>]
List(items) == [kind |-> "list", items |-> items]

\* `not addr_data`: None, the empty str and the empty dict are falsy
FalsyPayload(p) ==
    \/ p.kind = "none"
    \/ p.kind = "str" /\ p.str = ""
    \/ p.kind = "dict" /\ p.address.kind = "none"
         /\ p.arkhamEntity.kind = "none" /\ p.arkhamLabel.kind = "none"

---------------------------------------------------------------------------
(* DataProcessor (arkham/data_processor.py) *)

\* str.capitalize()
Capitalize(s) ==
    IF Len(s) = 0 THEN "" ELSE Upper(CharAt(s, 1)) \o Lower(SubSeq(s, 2, Len(s)))

\* DataProcessor._extract_address_from_obj
extract_address_from_obj(addr_obj) ==
    IF FalsyPayload(addr_obj) THEN None
    ELSE IF addr_obj.kind = "str" THEN addr_obj.str
    ELSE IF addr_obj.address.kind = "str" THEN addr_obj.address.str
    ELSE IF addr_obj.address.kind = "dict" THEN addr_obj.address.address
    ELSE None

\* line 132 as the earlier code had it: an entity or label name stands in for
\* a missing address
Identifier_orname(address_str, entity_name, label_name) ==
    IF ~Falsy(address_str) THEN address_str
    ELSE IF ~Falsy(entity_name) THEN entity_name
    ELSE label_name

\* line 132: identifier = address_str
Identifier(address_str, entity_name, label_name) == address_str

\* lines 146-171: the display name
DisplayName(address_str, entity_name, entity_type_display, label_name) ==
    IF ~Falsy(entity_name) /\ ~Falsy(label_name)
    THEN entity_name \o entity_type_display \o " - " \o label_name
    ELSE IF ~Falsy(entity_name) THEN entity_name \o entity_type_display
    ELSE IF ~Falsy(label_name) THEN label_name
    ELSE IF ~Falsy(address_str)
         THEN IF Len(address_str) > 10
              THEN SubSeq(address_str, 1, 5) \o "..."
                   \o SubSeq(address_str, Len(address_str) - 4, Len(address_str))
              ELSE address_str
    ELSE NA

\* line 125 left out: only an entity name makes the name real
IsRealName_entityonly(entity_name, label_name) == ~Falsy(entity_name)

\* lines 108, 120, 125: is_real_name
IsRealName(entity_name, label_name) == ~Falsy(entity_name) \/ ~Falsy(label_name)

\* an AttributeError leaves the call: nothing is returned, the cache is as
\* it was
AddressInfoRaises(st) ==
    [st |-> st, identifier |-> None, display_name |-> NA, is_real_name |-> FALSE,
     raised |-> TRUE]

\* DataProcessor._extract_address_info on the address cache state st:
\* [st, identifier, display_name, is_real_name, raised]; line 119 raises for
\* an entity type without .capitalize
extract_address_info(st, addr_data) ==
    IF FalsyPayload(addr_data)
    THEN [st |-> st, identifier |-> None, display_name |-> NA, is_real_name |-> FALSE,
          raised |-> FALSE]
    ELSE IF addr_data.kind = "dict" /\ addr_data.arkhamEntity.kind = "dict"
            /\ addr_data.arkhamEntity.type = Number
    THEN AddressInfoRaises(st)
    ELSE
    LET isdict == addr_data.kind = "dict"
        address_str == IF isdict THEN extract_address_from_obj(addr_data)
                       ELSE addr_data.str
        entity_name == IF isdict /\ addr_data.arkhamEntity.kind = "dict"
                       THEN addr_data.arkhamEntity.name ELSE None
        entity_type == IF isdict /\ addr_data.arkhamEntity.kind = "dict"
                       THEN addr_data.arkhamEntity.type ELSE None
        entity_type_display == IF ~Falsy(entity_type)
                               THEN " (" \o Capitalize(entity_type) \o ")" ELSE ""
        label_name == IF isdict /\ addr_data.arkhamLabel.kind = "dict"
                      THEN addr_data.arkhamLabel.name ELSE None
        is_real_name == IsRealName(entity_name, label_name)
        identifier == Identifier(address_str, entity_name, label_name)
        display_name == DisplayName(address_str, entity_name,
                                    entity_type_display, label_name)
    IN  [st |-> AddressCache_update(st, identifier, display_name, is_real_name),
         identifier |-> identifier, display_name |-> display_name,
         is_real_name |-> is_real_name, raised |-> FALSE]

\* lines 215 / 221 taking the last entry of the list instead of the first
list_fallback_last(first, list) ==
    IF first.raised THEN first
    ELSE IF Falsy(first.identifier) /\ list.kind = "list" /\ Len(list.items) > 0
    THEN IF list.items[Len(list.items)].kind = "scalar"
         THEN AddressInfoRaises(first.st)
         ELSE extract_address_info(first.st, list.items[Len(list.items)])
    ELSE first

\* lines 213-216 / 220-222: when the primary field gave no identifier and the
\* list is a non-empty list, its first entry is resolved instead
list_fallback(first, list) ==
    IF first.raised THEN first
    ELSE IF Falsy(first.identifier) /\ list.kind = "list" /\ Len(list.items) > 0
    THEN IF list.items[1].kind = "scalar"
         THEN AddressInfoRaises(first.st)
         ELSE extract_address_info(first.st, list.items[1])
    ELSE first

\* lines 211-216 / 218-222: one side of the transfer
resolve_side(st, primary, list) ==
    list_fallback(extract_address_info(st, primary), list)

\* DataProcessor._extract_token_info on the token cache state st:
\* [st, token_id, symbol, raised]; lines 191 and 193 raise for a chain
\* without .upper
extract_token_info(st, tx) ==
    IF tx.chain = Number
       /\ (Falsy(tx.tokenId)
           \/ Falsy(IF ~Falsy(tx.tokenSymbol) THEN tx.tokenSymbol ELSE tx.tokenName))
    THEN [st |-> st, token_id |-> None, symbol |-> None, raised |-> TRUE]
    ELSE
    LET symbol0 == IF ~Falsy(tx.tokenSymbol) THEN tx.tokenSymbol ELSE tx.tokenName
        token_id == IF ~Falsy(tx.tokenId) THEN tx.tokenId
                    ELSE IF ~Falsy(tx.chain) THEN Upper(tx.chain) ELSE "UNKNOWN_CHAIN"
        symbol == IF ~Falsy(symbol0) THEN symbol0
                  ELSE IF ~Falsy(tx.chain) THEN Upper(tx.chain) ELSE NA
    IN  [st |-> TokenCache_update(st, token_id, symbol),
         token_id |-> token_id, symbol |-> symbol, raised |-> FALSE]

\* A value given to _format_value: None, or the Decimal that
\* Decimal(str(value)) gives, as decimal keeps it: a sign, a coefficient and
\* the number of fractional digits (-0.0000015 is neg, 15, 7)
NoValue == [kind |-> "none", neg |-> FALSE, coeff |-> 0, scale |-> 0]
Dec(neg, coeff, scale) == [kind |-> "dec", neg |-> neg, coeff |-> coeff, scale |-> scale]

\* line 46: value_dec.quantize(Decimal('0.000001'), rounding=ROUND_HALF_UP),
\* the magnitude in millionths; the sign is kept, also for a zero result
Quantize6(d) ==
    IF d.scale <= 6 THEN d.coeff * 10^(6 - d.scale)
    ELSE (d.coeff + 5 * 10^(d.scale - 7)) \div 10^(d.scale - 6)

\* the decimal digits of a natural number, at least width of them
RECURSIVE Digits(_, _)
Digits(n, width) ==
    IF n < 10 /\ width <= 1 THEN CharAt("0123456789", n + 1)
    ELSE Digits(n \div 10, width - 1) \o CharAt("0123456789", (n % 10) + 1)

\* line 47: "{:.6f}".format(quantized_value)
Fixed6(neg, q) ==
    (IF neg THEN "-" ELSE "") \o Digits(q \div 10^6, 1) \o "." \o Digits(q % 10^6, 6)

\* str.rstrip(c)
RECURSIVE RStrip(_, _)
RStrip(s, c) ==
    IF Len(s) > 0 /\ CharAt(s, Len(s)) = c THEN RStrip(SubSeq(s, 1, Len(s) - 1), c)
    ELSE s

\* lines 54-58: trailing zeros and the decimal point are stripped
Stripped(formatted_str) ==
    IF RStrip(RStrip(formatted_str, "0"), ".") = "" THEN "0"
    ELSE RStrip(RStrip(formatted_str, "0"), ".")

\* DataProcessor._format_value(value, None)
format_value(value) ==
    IF value.kind = "none" THEN NA
    ELSE IF Fixed6(value.neg, Quantize6(value)) = "0.000000" /\ value.coeff # 0
    THEN ">0"
    ELSE Stripped(Fixed6(value.neg, Quantize6(value)))

NotFormatted == [value |-> NoValue, text |-> None, called |-> FALSE]

\* repr() of a str or None
Repr(x) == IF x = None THEN "None" ELSE "'" \o x \o "'"

\* hashlib.sha256(s.encode('utf-8')).hexdigest(), taken as injective: the
\* digest is written as the term sha256<s>
Sha256Hex(s) == "sha256<" \o s \o ">"

\* lines 243-250 with a hash input that leaves the chain out
transaction_id_nochain(tx, from_identifier, to_identifier, token_id) ==
    LET official == IF ~Falsy(tx.txid) THEN tx.txid ELSE tx.transactionHash
        hash_input == Repr(tx.blockTimestamp) \o "|" \o Repr(from_identifier)
                      \o "|" \o Repr(to_identifier) \o "|" \o Repr(token_id)
                      \o "|" \o Repr(tx.unitValue)
    IN  IF ~Falsy(official) THEN official
        ELSE "arkham_client_generated:" \o Sha256Hex(hash_input)

\* lines 238-257: the official id, or the content hash
transaction_id(tx, from_identifier, to_identifier, token_id) ==
    LET official == IF ~Falsy(tx.txid) THEN tx.txid ELSE tx.transactionHash
        chain == IF tx.chain = None THEN NA ELSE tx.chain
        hash_input == Repr(tx.blockTimestamp) \o "|" \o Repr(from_identifier)
                      \o "|" \o Repr(to_identifier) \o "|" \o Repr(token_id)
                      \o "|" \o Repr(tx.unitValue) \o "|" \o Repr(chain)
    IN  IF ~Falsy(official) THEN official
        ELSE "arkham_client_generated:" \o Sha256Hex(hash_input)

\* the value process_transaction returns for an invalid transaction
NoRecord ==
    [kind |-> "none", from_display |-> None, to_display |-> None,
     token_symbol |-> None, from_identifier |-> None, to_identifier |-> None,
     token_id |-> None, txid |-> None, raw_data |-> [kind |-> "none"]]

\* an exception leaves process_transaction: the caches keep what was written
\* before it
ExceptionRaised == [NoRecord EXCEPT !.kind = "exception"]
Raises(addr, tok) == [addr |-> addr, tok |-> tok, record |-> ExceptionRaised]

\* DataProcessor._format_timestamp (lines 21-29) raises for a truthy value
\* without .replace: the handler names ValueError and TypeError only
format_timestamp_raises(timestamp_str) == timestamp_str = Number

\* lines 227-278: the formatted fields and the processed dictionary, with the
\* caches as the from side, the to side and the token extraction left them
assemble(from, to, token, tx) ==
    IF token.raised \/ format_timestamp_raises(tx.blockTimestamp)
    THEN Raises(to.st, token.st)
    ELSE
    [addr |-> to.st, tok |-> token.st,
     record |->
        [kind |-> "record",
         from_display |-> from.display_name, to_display |-> to.display_name,
         token_symbol |-> token.symbol,
         from_identifier |-> from.identifier, to_identifier |-> to.identifier,
         token_id |-> token.token_id,
         txid |-> transaction_id(tx, from.identifier, to.identifier,
                                 token.token_id),
         raw_data |-> tx]]

\* lines 225-278: the token is extracted once both sides are resolved
after_to(from, to, tok, tx) ==
    IF to.raised THEN Raises(to.st, tok)
    ELSE assemble(from, to, extract_token_info(tok, tx), tx)

\* lines 218-278: the to side is resolved on the cache the from side left
after_from(from, tok, tx) ==
    IF from.raised THEN Raises(from.st, tok)
    ELSE after_to(from, resolve_side(from.st, tx.toAddress, tx.toAddresses), tok, tx)

\* DataProcessor.process_transaction on the state of both caches:
\* [addr, tok, record]; record is NoRecord for None, ExceptionRaised when an
\* exception leaves the call
process_transaction(addr, tok, tx) ==
    IF tx.kind # "dict" THEN [addr |-> addr, tok |-> tok, record |-> NoRecord]
    ELSE after_from(resolve_side(addr, tx.fromAddress, tx.fromAddresses), tok, tx)

---------------------------------------------------------------------------
(* TransactionFilter (arkham/filter.py) *)

DEFAULT_LIMIT == 100

\* min_usd: None, or the float whole + tenths/10
NoUsd == [given |-> FALSE, whole |-> 0, tenths |-> 0]
Usd(whole, tenths) == [given |-> TRUE, whole |-> whole, tenths |-> tenths]

\* a criterion list is None (NoList) or a list of str (List); `if names`
\* holds for a non-empty list only
GivenList(l) == l.kind = "list" /\ Len(l.items) > 0

\* a resolved id set: None (the dimension is inactive) or a set
Inactive == [active |-> FALSE, ids |-> {}]

\* line 49-51 with an empty result stored as None
Active_collapse(ids) == IF ids = {} THEN Inactive ELSE [active |-> TRUE, ids |-> ids]

\* the set find_ids_by_symbols / find_identifiers_by_names returned, stored
\* as it is, empty or not
Active(ids) == [active |-> TRUE, ids |-> ids]

RECURSIVE find_ids_by_symbols(_, _)
\* TokenCache.find_ids_by_symbols, symbols a sequence
find_ids_by_symbols(s2i, symbols) ==
    IF symbols = <<>> THEN {}
    ELSE get_ids(s2i, Head(symbols)) \cup find_ids_by_symbols(s2i, Tail(symbols))

\* TransactionFilter.__init__
TransactionFilter_init ==
    [min_usd |-> NoUsd, lookback |-> None, token_symbols |-> NoList,
     from_address_names |-> NoList, to_address_names |-> NoList,
     allowed_token_ids |-> Inactive, allowed_from_ids |-> Inactive,
     allowed_to_ids |-> Inactive]

\* _resolve_filter_ids that resolves a dimension only when it holds no set yet
resolve_filter_ids_once(f, n2i, s2i) ==
    [f EXCEPT
       !.allowed_token_ids =
          IF f.allowed_token_ids.active THEN @
          ELSE IF GivenList(f.token_symbols)
          THEN Active(find_ids_by_symbols(s2i, f.token_symbols.items)) ELSE Inactive,
       !.allowed_from_ids =
          IF f.allowed_from_ids.active THEN @
          ELSE IF GivenList(f.from_address_names)
          THEN Active(find_identifiers_by_names(n2i, f.from_address_names.items))
          ELSE Inactive,
       !.allowed_to_ids =
          IF f.allowed_to_ids.active THEN @
          ELSE IF GivenList(f.to_address_names)
          THEN Active(find_identifiers_by_names(n2i, f.to_address_names.items))
          ELSE Inactive]

\* TransactionFilter._resolve_filter_ids on the reverse maps of the caches
resolve_filter_ids(f, n2i, s2i) ==
    [f EXCEPT
       !.allowed_token_ids =
          IF GivenList(f.token_symbols)
          THEN Active(find_ids_by_symbols(s2i, f.token_symbols.items)) ELSE Inactive,
       !.allowed_from_ids =
          IF GivenList(f.from_address_names)
          THEN Active(find_identifiers_by_names(n2i, f.from_address_names.items))
          ELSE Inactive,
       !.allowed_to_ids =
          IF GivenList(f.to_address_names)
          THEN Active(find_identifiers_by_names(n2i, f.to_address_names.items))
          ELSE Inactive]

\* line 38 keeping the earlier value when the argument is None
NewLookback_keep(old, lookback) == IF lookback = None THEN old ELSE lookback

\* line 38: self.lookback = lookback
NewLookback(old, lookback) == lookback

\* TransactionFilter.update
TransactionFilter_update(f, n2i, s2i, args) ==
    resolve_filter_ids(
        [f EXCEPT !.min_usd = args.min_usd,
                  !.lookback = NewLookback(f.lookback, args.lookback),
                  !.token_symbols = args.token_symbols,
                  !.from_address_names = args.from_address_names,
                  !.to_address_names = args.to_address_names],
        n2i, s2i)

\* a parameter value: an int or a str
IntVal(n) == [type |-> "int", text |-> ToString(n)]
StrVal(s) == [type |-> "str", text |-> s]

RECURSIVE JoinComma(_)
\* ",".join(seq)
JoinComma(seq) ==
    IF seq = <<>> THEN ""
    ELSE IF Len(seq) = 1 THEN seq[1]
    ELSE seq[1] \o "," \o JoinComma(Tail(seq))

\* line 60: int(min_usd) if min_usd == int(min_usd) else str(min_usd)
UsdGte(min_usd) ==
    IF min_usd.tenths = 0 THEN IntVal(min_usd.whole)
    ELSE StrVal(ToString(min_usd.whole) \o "." \o ToString(min_usd.tenths))

\* lines 65-66, 80-81, 89-90 without the test for an empty set
IncludeIds_whenactive(allowed) == allowed.active

\* lines 65-66, 80-81, 89-90: the set is not None and not empty
IncludeIds(allowed) == allowed.active /\ allowed.ids # {}

\* line 68: ",".join(sorted(list(ids))).lower()
TokensParam(ids) == Lower(JoinComma(Sorted(ids)))

\* lines 83 and 92: ",".join(sorted(list(ids)))
AddressesParam(ids) == JoinComma(Sorted(ids))

\* params with params[key] = value when the condition holds
PutIf(condition, params, key, value) ==
    IF condition THEN Put(params, key, value) ELSE params

\* TransactionFilter.get_api_params
get_api_params(f, limit) ==
    PutIf(IncludeIds(f.allowed_to_ids),
      PutIf(IncludeIds(f.allowed_from_ids),
        PutIf(IncludeIds(f.allowed_token_ids),
          PutIf(f.min_usd.given,
            PutIf(~Falsy(f.lookback),
              [k \in {"limit"} |-> IntVal(limit)],
              "timeLast", StrVal(f.lookback)),
            "usdGte", UsdGte(f.min_usd)),
          "tokens", StrVal(TokensParam(f.allowed_token_ids.ids))),
        "from", StrVal(AddressesParam(f.allowed_from_ids.ids))),
      "to", StrVal(AddressesParam(f.allowed_to_ids.ids)))

\* the arguments of an update call
FilterArgs(min_usd, lookback, token_symbols, from_address_names, to_address_names) ==
    [min_usd |-> min_usd, lookback |-> lookback, token_symbols |-> token_symbols,
     from_address_names |-> from_address_names,
     to_address_names |-> to_address_names]

\* update() with no arguments
NoArgs == FilterArgs(NoUsd, None, NoList, NoList, NoList)

\* TransactionFilter.update statement by statement: the filter after the
\* statement of the given line, lines 37-41 and 49-51
update_statement(line, f, n2i, s2i, args) ==
    CASE line = 37 -> [f EXCEPT !.min_usd = args.min_usd]
      [] line = 38 -> [f EXCEPT !.lookback = NewLookback(f.lookback, args.lookback)]
      [] line = 39 -> [f EXCEPT !.token_symbols = args.token_symbols]
      [] line = 40 -> [f EXCEPT !.from_address_names = args.from_address_names]
      [] line = 41 -> [f EXCEPT !.to_address_names = args.to_address_names]
      [] line = 49 -> [f EXCEPT !.allowed_token_ids =
                                   resolve_filter_ids(f, n2i, s2i).allowed_token_ids]
      [] line = 50 -> [f EXCEPT !.allowed_from_ids =
                                   resolve_filter_ids(f, n2i, s2i).allowed_from_ids]
      [] line = 51 -> [f EXCEPT !.allowed_to_ids =
                                   resolve_filter_ids(f, n2i, s2i).allowed_to_ids]

\* the line after it; 0 when update returns
update_next(line) ==
    CASE line = 41 -> 49
      [] line = 51 -> 0
      [] OTHER -> line + 1

\* TransactionFilter.get_api_params statement by statement: params after the
\* test of the given line, lines 55, 57, 64, 78 and 87
params_statement(line, f, params) ==
    CASE line = 55 -> PutIf(~Falsy(f.lookback), params, "timeLast", StrVal(f.lookback))
      [] line = 57 -> PutIf(f.min_usd.given, params, "usdGte", UsdGte(f.min_usd))
      [] line = 64 -> PutIf(IncludeIds(f.allowed_token_ids), params, "tokens",
                            StrVal(TokensParam(f.allowed_token_ids.ids)))
      [] line = 78 -> PutIf(IncludeIds(f.allowed_from_ids), params, "from",
                            StrVal(AddressesParam(f.allowed_from_ids.ids)))
      [] line = 87 -> PutIf(IncludeIds(f.allowed_to_ids), params, "to",
                            StrVal(AddressesParam(f.allowed_to_ids.ids)))

\* the line after it; 0 when get_api_params returns
params_next(line) ==
    CASE line = 55 -> 57
      [] line = 57 -> 64
      [] line = 64 -> 78
      [] line = 78 -> 87
      [] line = 87 -> 0

\* A reverse index is a defaultdict(set): d[k] enters an empty set for a
\* missing key, d.get(k, set()) does not.
\* the index after d[k]
lookup_indexing(d, k) == IF k \in DOMAIN d THEN d ELSE Put(d, k, {})

\* the index after d.get(k, set()) (cache.py lines 47 and 142)
lookup(d, k) == d

RECURSIVE lookups(_, _)
\* the index after the loops of find_identifiers_by_names and
\* find_ids_by_symbols (cache.py lines 75-76 and 155-156)
lookups(d, keys) ==
    IF keys = <<>> THEN d ELSE lookups(lookup(d, Head(keys)), Tail(keys))

\* the symbols as get_ids looks them up (line 142: symbol.upper())
UpperAll(symbols) == [k \in 1..Len(symbols) |-> Upper(symbols[k])]

\* the criterion list as _resolve_filter_ids passes it on: nothing is looked
\* up for None or an empty list
Resolved(l) == IF GivenList(l) THEN l.items ELSE <<>>

\* a query: the operation and its argument
Query(op, arg) == [op |-> op, arg |-> arg]
NoQuery == Query("none", None)

\* the reverse index of AddressCache after the query
name_to_ids_after(q, n2i) ==
    CASE q.op = "get_identifiers_by_name" -> lookup(n2i, q.arg)
      [] q.op = "find_identifiers_by_names" -> lookups(n2i, q.arg)
      [] q.op = "filter.update" ->
            lookups(lookups(n2i, Resolved(q.arg.from_address_names)),
                    Resolved(q.arg.to_address_names))
      [] OTHER -> n2i

\* the reverse index of TokenCache after the query
symbol_to_ids_after(q, s2i) ==
    CASE q.op = "get_ids" -> lookup(s2i, Upper(q.arg))
      [] q.op = "find_ids_by_symbols" -> lookups(s2i, UpperAll(q.arg))
      [] q.op = "filter.update" -> lookups(s2i, UpperAll(Resolved(q.arg.token_symbols)))
      [] OTHER -> s2i

\* no update call in progress; no get_api_params call made yet
NotSetting == [line |-> 0, args |-> NoArgs]
NotPolling == [line |-> 0, params |-> EmptyMap, returned |-> FALSE, overlapped |-> FALSE]

---------------------------------------------------------------------------
(* ArkhamMonitor (arkham/arkham_monitor.py) *)

MaxThreads == 2

\* the threads start_background_monitoring can create; a finished thread's
\* slot is taken again by a later start
ThreadIds == 1..MaxThreads

\* A thread is at "check" (the while test of line 185), at "fetch" (inside
\* _fetch_and_process, request in flight), at "sleep" (the wait of line 227),
\* "done" (the loop ended) or "crashed" (an exception left the loop); "idle"
\* is a thread not created.
NoThread == [pc |-> "idle", processed_ids_in_last_batch |-> {}]

\* Thread.is_alive()
is_alive(t) == threads[t].pc \in {"check", "fetch", "sleep"}

\* the answer of client.get_transfers: a dict with a 'transfers' list, a value
\* without one, or an exception (ArkhamAPIError or any other)
OkResponse(transfers) == [kind |-> "ok", transfers |-> transfers]
NoListResponse        == [kind |-> "nolist", transfers |-> <<>>]
ErrorResponse         == [kind |-> "error", transfers |-> <<>>]

\* lines 289-290 without the test: None is appended too
append_processed_always(processed_list, record) == Append(processed_list, record)

\* lines 289-290: a record is appended, None is not
append_processed(processed_list, record) ==
    IF record.kind = "record" THEN Append(processed_list, record) ELSE processed_list

RECURSIVE process_list(_, _, _, _)
RECURSIVE process_rest(_, _, _)
\* lines 286-290 of process_transactions_response:
\* [addr, tok, processed_list, raised]
process_list(addr, tok, transfers, processed_list) ==
    IF transfers = <<>>
    THEN [addr |-> addr, tok |-> tok, processed_list |-> processed_list,
          raised |-> FALSE]
    ELSE process_rest(process_transaction(addr, tok, Head(transfers)),
                      Tail(transfers), processed_list)

\* the rest of the list, on the caches the processed element left; an
\* exception of process_transaction ends the for loop and leaves the method
process_rest(r, transfers, processed_list) ==
    IF r.record.kind = "exception"
    THEN [addr |-> r.addr, tok |-> r.tok, processed_list |-> processed_list,
          raised |-> TRUE]
    ELSE process_list(r.addr, r.tok, transfers,
                      append_processed(processed_list, r.record))

\* DataProcessor.process_transactions_response
process_transactions_response(addr, tok, api_response) ==
    IF api_response.kind # "ok"
    THEN [addr |-> addr, tok |-> tok, processed_list |-> <<>>, raised |-> FALSE]
    ELSE process_list(addr, tok, api_response.transfers, <<>>)

\* last_result before any call of process_transactions_response
NoResult == [called |-> FALSE, transfers |-> <<>>, processed_list |-> <<>>,
             raised |-> FALSE]

\* lines 132-139 without the handlers: the exception leaves _fetch_and_process
OnFetchError_reraise == [last_processed |-> last_processed, raised |-> TRUE]

\* lines 132-139: both handlers clear the list and return []
OnFetchError == [last_processed |-> <<>>, raised |-> FALSE]

\* lines 130-131: the processed list is stored and returned; an exception of
\* process_transactions_response is caught by the handler of line 136
store_processed(r) ==
    IF r.raised
    THEN [addr |-> r.addr, tok |-> r.tok,
          last_processed |-> OnFetchError.last_processed,
          result |-> <<>>, raised |-> OnFetchError.raised]
    ELSE [addr |-> r.addr, tok |-> r.tok, last_processed |-> r.processed_list,
          result |-> r.processed_list, raised |-> FALSE]

\* ArkhamMonitor._fetch_and_process given the transport's answer:
\* [addr, tok, last_processed, result, raised]
fetch_and_process(addr, tok, api_response) ==
    IF api_response.kind = "error"
    THEN [addr |-> addr, tok |-> tok,
          last_processed |-> OnFetchError.last_processed,
          result |-> <<>>, raised |-> OnFetchError.raised]
    ELSE store_processed(process_transactions_response(addr, tok, api_response))

\* tx.get('_raw_data', {}).get('txid')
RawTxid(record) == record.raw_data.txid

\* lines 191-192 and 204-205: the raw txid of every record, None discarded
BatchIds(records) == {RawTxid(records[k]) : k \in 1..Len(records)} \ {None}

\* lines 207-212: the records the callback is due for, in order
Reported(records, truly_new_ids) ==
    SelectSeq(records, LAMBDA tx : RawTxid(tx) \in truly_new_ids)

\* the _txid of every record of a batch
BatchTxids(records) == {records[k].txid : k \in 1..Len(records)}

\* lines 210-217 without the try: the first exception of the callback leaves
\* the for loop and the thread
run_callbacks_propagate(new_records, raising) ==
    IF \E k \in 1..Len(new_records) : k \in raising
    THEN [invoked |->
             SubSeq(new_records, 1,
                    CHOOSE k \in 1..Len(new_records) :
                       k \in raising /\ \A j \in 1..(k - 1) : j \notin raising),
          failed |-> {CHOOSE k \in 1..Len(new_records) :
                         k \in raising /\ \A j \in 1..(k - 1) : j \notin raising},
          escaped |-> TRUE]
    ELSE [invoked |-> new_records, failed |-> {}, escaped |-> FALSE]

\* lines 210-217: the callback is called for each new record in order; raising
\* holds the positions at which it raises, and each exception is caught and
\* logged in place: [invoked, failed, escaped]
run_callbacks(new_records, raising) ==
    [invoked |-> new_records,
     failed |-> {k \in 1..Len(new_records) : k \in raising},
     escaped |-> FALSE]

\* cycle is what the last step of a loop handed to the callback, when that
\* step ended a cycle: the loop, the kind of answer it got, the records the
\* callback was called with, in order, and the positions at which it raised;
\* NoCycle after every other step
NoCycle == [thread |-> 0, response |-> "none", reported |-> <<>>, failed |-> {}]

\* lines 209-219 in thread t: cb is what the calls of the callback did
after_callbacks(t, response_kind, result, cb) ==
    /\ cycle' = [thread |-> t, response |-> response_kind,
                 reported |-> cb.invoked, failed |-> cb.failed]
    /\ IF cb.escaped
       THEN /\ threads' = [threads EXCEPT ![t].pc = "crashed"]
            /\ UNCHANGED prev_txids
       ELSE /\ threads' = [threads EXCEPT ![t] =
                   [pc |-> "sleep",
                    processed_ids_in_last_batch |-> BatchIds(result)]]
            /\ prev_txids' = IF t = 1 THEN BatchTxids(result) ELSE prev_txids

\* lines 191-219 in thread t, r being what _fetch_and_process did and returned
finish_cycle(t, response_kind, r, raising) ==
    /\ cache' = r.addr.cache
    /\ name_to_ids' = r.addr.name_to_ids
    /\ id_to_symbol' = r.tok.id_to_symbol
    /\ symbol_to_ids' = r.tok.symbol_to_ids
    /\ last_processed' = r.last_processed
    /\ IF r.raised
       THEN /\ threads' = [threads EXCEPT ![t].pc = "crashed"]
            /\ cycle' = [NoCycle EXCEPT !.thread = t, !.response = response_kind]
            /\ UNCHANGED prev_txids
       ELSE after_callbacks(t, response_kind, r.result,
                run_callbacks(Reported(r.result,
                                       BatchIds(r.result)
                                       \ threads[t].processed_ids_in_last_batch),
                              raising))

\* One pass of the body of the while loop (lines 186-219) in thread t, from
\* the answer of the transport on; raising holds the positions, among the
\* calls of the callback, at which the callback raises.
LoopFetchReturn(t, api_response, raising) ==
    /\ threads[t].pc = "fetch"
    /\ finish_cycle(t, api_response.kind,
                    fetch_and_process([cache |-> cache, name_to_ids |-> name_to_ids],
                                      [id_to_symbol |-> id_to_symbol,
                                       symbol_to_ids |-> symbol_to_ids],
                                      api_response),
                    raising)
    /\ UNCHANGED <<histVars, procVars, otherVars, monitor_thread, stop_flag, main_pc, stopped>>

\* the while test of line 185; when the loop ends its locals are gone
LoopCheck(t) ==
    /\ threads[t].pc = "check"
    /\ threads' = [threads EXCEPT ![t] = IF stop_flag
                                         THEN [NoThread EXCEPT !.pc = "done"]
                                         ELSE [@ EXCEPT !.pc = "fetch"]]
    /\ cycle' = NoCycle
    /\ prev_txids' = IF t = 1 /\ stop_flag THEN {} ELSE prev_txids
    /\ UNCHANGED <<addrVars, tokVars, histVars, procVars, otherVars, last_processed,
                   monitor_thread, stop_flag, main_pc, stopped>>

\* line 227: Event.wait returns, because the flag is set or the time is over
LoopWake(t) ==
    /\ threads[t].pc = "sleep"
    /\ threads' = [threads EXCEPT ![t].pc = "check"]
    /\ cycle' = NoCycle
    /\ UNCHANGED prev_txids
    /\ UNCHANGED <<addrVars, tokVars, histVars, procVars, otherVars, last_processed,
                   monitor_thread, stop_flag, main_pc, stopped>>

\* ArkhamMonitor.start_background_monitoring
StartBackgroundMonitoring ==
    /\ main_pc = "idle"
    /\ IF monitor_thread # 0 /\ is_alive(monitor_thread)
       THEN UNCHANGED <<stop_flag, monitor_thread, threads, stopped, prev_txids>>
       ELSE /\ \E t \in ThreadIds : ~is_alive(t)
            /\ LET t == CHOOSE x \in ThreadIds :
                           ~is_alive(x) /\ \A y \in ThreadIds : ~is_alive(y) => x <= y
               IN  /\ stop_flag' = FALSE
                   /\ monitor_thread' = t
                   /\ threads' = [threads EXCEPT ![t] =
                                     [NoThread EXCEPT !.pc = "check"]]
                   /\ stopped' = stopped \ {t}
                   /\ prev_txids' = IF t = 1 THEN {} ELSE prev_txids
    /\ cycle' = NoCycle
    /\ UNCHANGED <<addrVars, tokVars, histVars, procVars, otherVars, last_processed, main_pc>>

\* ArkhamMonitor.stop_background_monitoring up to the join (lines 253-259)
StopBackgroundMonitoring ==
    /\ main_pc = "idle"
    /\ IF monitor_thread = 0 \/ ~is_alive(monitor_thread)
       THEN UNCHANGED <<stop_flag, main_pc, stopped>>
       ELSE /\ stop_flag' = TRUE
            /\ main_pc' = "joining"
            /\ stopped' = stopped \cup {t \in ThreadIds : is_alive(t)}
    /\ cycle' = NoCycle
    /\ UNCHANGED <<addrVars, tokVars, histVars, procVars, otherVars, last_processed,
                   monitor_thread, threads, prev_txids>>

\* lines 261-265: the reference is dropped, the thread alive or not
drop_reference ==
    /\ monitor_thread' = 0
    /\ main_pc' = "idle"
    /\ cycle' = NoCycle
    /\ UNCHANGED <<addrVars, tokVars, histVars, procVars, otherVars, last_processed,
                   stop_flag, threads, stopped, prev_txids>>

\* line 259: join returns because the thread has ended
JoinEnds ==
    /\ main_pc = "joining"
    /\ ~is_alive(monitor_thread)
    /\ drop_reference

\* line 259: join returns because the timeout is over while the thread is
\* alive.  The timeout runs out only while the request of the thread is in
\* flight: with the flag set the test of line 185 and the wait of line 227
\* return at once.
JoinTimesOut ==
    /\ main_pc = "joining"
    /\ threads[monitor_thread].pc = "fetch"
    /\ drop_reference

\* lines 259-265: join returns, the thread having ended or the timeout being
\* over while it is still alive; either way the reference is dropped
JoinReturns == JoinEnds \/ JoinTimesOut

---------------------------------------------------------------------------
(* History *)

\* old_name: the name the identifier had before the call (None when it had none)
NoCall == [op |-> "none", identifier |-> None, display_name |-> None,
           is_real_name |-> FALSE, old_name |-> None]

\* whether update(identifier, ...) passes the guard of line 13
Effective(identifier) == ~(Falsy(identifier) \/ identifier = NA)

---------------------------------------------------------------------------
(* AddressCache.update statement by statement: the polling thread runs it
   while the caller's thread reads the cache; the class holds no lock, so a
   read may fall between any two statements.  upd.pc is the line the call is
   about to execute. *)

NoUpdate == [pc |-> "idle", identifier |-> None, name_to_store |-> None,
             is_real_name |-> FALSE]

NoRead == [identifier |-> None, name |-> None, bucket |-> {}, buckets |-> {}]

\* the frame of the statements of update
UpdFrame == UNCHANGED <<tokVars, histVars, procVars, monVars, batchVars, restVars, observed>>

\* lines 13-23 and 35: the guard, name_to_store, the lookup of the entry
UpdBegin(identifier, display_name, is_real_name) ==
    /\ upd.pc = "idle"
    /\ Effective(identifier)
    /\ upd' = [pc |-> IF identifier \in DOMAIN cache THEN "25" ELSE "36",
               identifier |-> identifier,
               name_to_store |-> NameToStore(identifier, display_name),
               is_real_name |-> is_real_name]
    /\ UNCHANGED addrVars
    /\ UpdFrame

\* lines 25-27: the identifier leaves the bucket of its old name
Upd27 ==
    /\ upd.pc = "25"
    /\ IF cache[upd.identifier].name # upd.name_to_store
          /\ cache[upd.identifier].name \in DOMAIN name_to_ids
       THEN /\ name_to_ids' =
                  Put(name_to_ids, cache[upd.identifier].name,
                      name_to_ids[cache[upd.identifier].name] \ {upd.identifier})
            /\ upd' = [upd EXCEPT !.pc = "28"]
       ELSE /\ upd' = [upd EXCEPT !.pc = "32"]
            /\ UNCHANGED name_to_ids
    /\ UNCHANGED cache
    /\ UpdFrame

\* lines 28-29: an emptied bucket is deleted
Upd29 ==
    /\ upd.pc = "28"
    /\ name_to_ids' = IF name_to_ids[cache[upd.identifier].name] = {}
                      THEN Del(name_to_ids, cache[upd.identifier].name)
                      ELSE name_to_ids
    /\ upd' = [upd EXCEPT !.pc = "32"]
    /\ UNCHANGED cache
    /\ UpdFrame

\* line 32: the entry takes the new name
Upd32 ==
    /\ upd.pc = "32"
    /\ cache' = [cache EXCEPT ![upd.identifier].name = upd.name_to_store]
    /\ upd' = [upd EXCEPT !.pc = "34"]
    /\ UNCHANGED name_to_ids
    /\ UpdFrame

\* line 34: the flag is merged
Upd34 ==
    /\ upd.pc = "34"
    /\ cache' = [cache EXCEPT ![upd.identifier].is_real =
                                 MergeReal(@, upd.is_real_name)]
    /\ upd' = [upd EXCEPT !.pc = "39"]
    /\ UNCHANGED name_to_ids
    /\ UpdFrame

\* line 36: a new entry is stored
Upd36 ==
    /\ upd.pc = "36"
    /\ cache' = Put(cache, upd.identifier,
                    [name |-> upd.name_to_store, is_real |-> upd.is_real_name])
    /\ upd' = [upd EXCEPT !.pc = "39"]
    /\ UNCHANGED name_to_ids
    /\ UpdFrame

\* line 39: the identifier joins the bucket of the stored name; update returns
Upd39 ==
    /\ upd.pc = "39"
    /\ name_to_ids' = Put(name_to_ids, upd.name_to_store,
                          Get(name_to_ids, upd.name_to_store, {})
                          \cup {upd.identifier})
    /\ upd' = NoUpdate
    /\ UNCHANGED cache
    /\ UpdFrame

\* the caller's thread reads: get_name(identifier), get_identifiers_by_name
\* of the name it got, and the buckets that hold the identifier
ForegroundRead(identifier) ==
    /\ observed' = [identifier |-> identifier,
                    name |-> get_name(cache, identifier),
                    bucket |-> get_identifiers_by_name(
                                   name_to_ids, get_name(cache, identifier)),
                    buckets |-> {n \in DOMAIN name_to_ids :
                                    identifier \in name_to_ids[n]}]
    /\ UNCHANGED <<addrVars, tokVars, histVars, procVars, monVars, batchVars, restVars, upd>>

---------------------------------------------------------------------------
(* The fetches a caller starts (arkham_monitor.py 63-90, 141-178) *)

\* what a call hands its caller: a bool, or a DataFrame given by its rows
BoolValue(b) == [type |-> "bool", truth |-> b, rows |-> <<>>]
DataFrame(rows) == [type |-> "DataFrame", truth |-> FALSE, rows |-> rows]

\* singles before any call
NoSingles == [transfers |-> <<>>, records |-> <<>>, raised |-> FALSE]

\* called before any call
NotCalled == [op |-> "none", response |-> "none", raised |-> FALSE,
              value |-> BoolValue(FALSE)]

\* lines 150-178: the DataFrame built from what _fetch_and_process returned,
\* one row per record
get_transactions_value(r) ==
    [raised |-> r.raised,
     value |-> DataFrame([k \in 1..Len(r.result) |-> r.result[k].txid])]

\* initialize_cache, lines 80-90, r being what process_transactions_response
\* did: [addr, tok, raised, value]
initialize_cache_value(r) ==
    [addr |-> r.addr, tok |-> r.tok, raised |-> FALSE,
     value |-> BoolValue(~r.raised)]

\* ArkhamMonitor.initialize_cache given the transport's answer
initialize_cache(addr, tok, api_response) ==
    IF api_response.kind = "error"
    THEN [addr |-> addr, tok |-> tok, raised |-> FALSE, value |-> BoolValue(FALSE)]
    ELSE initialize_cache_value(process_transactions_response(addr, tok, api_response))

---------------------------------------------------------------------------
(* Export and import of the caches (arkham_monitor.py 267-321; the caches'
   get_state and load_state are not in cache.py and follow the
   specification: the full bidirectional index, sets as sequences, load
   replaces the content) *)

\* the set of the elements of a sequence
Elements(seq) == {seq[k] : k \in 1..Len(seq)}

\* AddressCache.get_state: both maps, each bucket as a sorted list
AddressCache_get_state(st) ==
    [cache |-> st.cache,
     name_to_ids |-> [n \in DOMAIN st.name_to_ids |-> Sorted(st.name_to_ids[n])]]

\* AddressCache.load_state: the content is replaced by the state's
AddressCache_load_state(st, state) ==
    [cache |-> state.cache,
     name_to_ids |-> [n \in DOMAIN state.name_to_ids |-> Elements(state.name_to_ids[n])]]

\* TokenCache.get_state: both maps, each bucket as a sorted list
TokenCache_get_state(st) ==
    [id_to_symbol |-> st.id_to_symbol,
     symbol_to_ids |->
        [sym \in DOMAIN st.symbol_to_ids |-> Sorted(st.symbol_to_ids[sym])]]

\* TokenCache.load_state: the content is replaced by the state's
TokenCache_load_state(st, state) ==
    [id_to_symbol |-> state.id_to_symbol,
     symbol_to_ids |->
        [sym \in DOMAIN state.symbol_to_ids |-> Elements(state.symbol_to_ids[sym])]]

\* TokenCache.get_all_symbols
get_all_symbols(s2i) == Sorted({sym \in DOMAIN s2i : s2i[sym] # {}})

\* TokenCache.get_symbol_to_ids_map
get_symbol_to_ids_map(s2i) ==
    [sym \in {x \in DOMAIN s2i : s2i[x] # {}} |-> s2i[sym]]

\* ArkhamMonitor.get_full_cache_state on the monitor's two caches
get_full_cache_state(addr, tok) ==
    [k \in {"address_cache", "token_cache"} |->
        IF k = "address_cache" THEN AddressCache_get_state(addr)
        ELSE TokenCache_get_state(tok)]

\* lines 313-321 left out: the token cache is not loaded
load_full_cache_state_addronly(addr, tok, full_state) ==
    IF DOMAIN full_state = {} THEN [addr |-> addr, tok |-> tok]
    ELSE [addr |-> IF "address_cache" \in DOMAIN full_state
                   THEN AddressCache_load_state(addr, full_state["address_cache"])
                   ELSE addr,
          tok |-> tok]

\* ArkhamMonitor.load_full_cache_state on the monitor's two caches; a key the
\* state lacks leaves that cache as it is
load_full_cache_state(addr, tok, full_state) ==
    IF DOMAIN full_state = {} THEN [addr |-> addr, tok |-> tok]
    ELSE [addr |-> IF "address_cache" \in DOMAIN full_state
                   THEN AddressCache_load_state(addr, full_state["address_cache"])
                   ELSE addr,
          tok |-> IF "token_cache" \in DOMAIN full_state
                  THEN TokenCache_load_state(tok, full_state["token_cache"])
                  ELSE tok]

\* exported before any export, loaded before any load
NoExport == [done |-> FALSE, state |-> EmptyMap]
NotLoaded == [addr |-> AddressCache_init, tok |-> TokenCache_init]

---------------------------------------------------------------------------
(* Specification SpecAddr: any sequence of AddressCache.update calls *)

Init ==
    /\ cache = AddressCache_init.cache
    /\ name_to_ids = AddressCache_init.name_to_ids
    /\ id_to_symbol = TokenCache_init.id_to_symbol
    /\ symbol_to_ids = TokenCache_init.symbol_to_ids
    /\ last_call = NoCall
    /\ ever_real = {}
    /\ registered = {}
    /\ last_record = NoRecord
    /\ last_processed = <<>>
    /\ monitor_thread = 0
    /\ stop_flag = FALSE
    /\ threads = [t \in ThreadIds |-> NoThread]
    /\ main_pc = "idle"
    /\ cycle = NoCycle
    /\ stopped = {}
    /\ prev_txids = {}
    /\ upd = NoUpdate
    /\ observed = NoRead
    /\ last_result = NoResult
    /\ filt = TransactionFilter_init
    /\ filt_op = "none"
    /\ last_args = NoArgs
    /\ keys_before = {}
    /\ norm_last = NoRecord
    /\ norm_before = NoRecord
    /\ exported = NoExport
    /\ loaded = NotLoaded
    /\ called = NotCalled
    /\ singles = NoSingles
    /\ formatted = NotFormatted
    /\ setting = NotSetting
    /\ polling = NotPolling
    /\ completed = {get_api_params(TransactionFilter_init, DEFAULT_LIMIT)}
    /\ asked = NoQuery

\* a call address_cache.update(identifier, display_name, is_real_name)
AddrUpdate(identifier, display_name, is_real_name) ==
    LET st == AddressCache_update([cache |-> cache, name_to_ids |-> name_to_ids],
                                  identifier, display_name, is_real_name)
    IN  /\ cache' = st.cache
        /\ name_to_ids' = st.name_to_ids
        /\ last_call' = [op |-> "AddressCache.update", identifier |-> identifier,
                         display_name |-> display_name,
                         is_real_name |-> is_real_name,
                         old_name |-> get_name(cache, identifier)]
        /\ ever_real' = IF Effective(identifier) /\ is_real_name
                        THEN ever_real \cup {identifier} ELSE ever_real
        /\ UNCHANGED <<tokVars, registered, procVars, monVars, otherVars>>

NextAddr ==
    \E identifier \in IdentifierArgs, display_name \in DisplayNameArgs,
       is_real_name \in BOOLEAN :
        AddrUpdate(identifier, display_name, is_real_name)

SpecAddr == Init /\ [][NextAddr]_vars

---------------------------------------------------------------------------
(* Specification SpecTok: any sequence of TokenCache.update calls *)

\* a call token_cache.update(token_id, symbol)
TokUpdate(token_id, symbol) ==
    LET st == TokenCache_update([id_to_symbol |-> id_to_symbol,
                                 symbol_to_ids |-> symbol_to_ids],
                                token_id, symbol)
    IN  /\ id_to_symbol' = st.id_to_symbol
        /\ symbol_to_ids' = st.symbol_to_ids
        /\ registered' = IF Effective(token_id)
                         THEN registered \cup {<<token_id, StoredSymbol(symbol)>>}
                         ELSE registered
        /\ UNCHANGED <<addrVars, last_call, ever_real, procVars, monVars, otherVars>>

NextTok ==
    \E token_id \in TokenIdArgs, symbol \in SymbolArgs : TokUpdate(token_id, symbol)

SpecTok == Init /\ [][NextTok]_vars

---------------------------------------------------------------------------
(* Specification SpecProc: any sequence of process_transaction calls on raw
   transfers whose from side takes every payload shape *)

NumAddrs == 2

\* one address of at most 10 characters, the others longer
AddrPool == <<"0xA1", "0xPlainSender0011", "bc1qBitcoinSender1", "0xB2">>
Addrs    == {AddrPool[k] : k \in 1..NumAddrs}

\* entity and label names; no address is also a name
EntityNames == {"Binance", "Kraken"}
LabelNames  == {"Hot Wallet"}
MetaNames   == EntityNames \cup LabelNames

AddrValues == {AbsentAddr} \cup {FlatAddr(a) : a \in Addrs}
              \cup {NestedAddr(a) : a \in Addrs}

\* every shape of a from payload
FromPayloads ==
    {PNone} \cup {PStr(a) : a \in Addrs}
    \cup {PDict(av, e, l) : av \in AddrValues,
                            e \in {NoEntity, Entity("Binance", "cex")},
                            l \in {NoLabel, Label("Hot Wallet")}}

FromLists ==
    {NoList,
     List(<<PDict(FlatAddr(AddrPool[2]), NoEntity, Label("Hot Wallet")),
            PStr(AddrPool[1])>>),
     List(<<PDict(AbsentAddr, NoEntity, Label("Hot Wallet")),
            PStr(AddrPool[1])>>)}

ToPayloads ==
    {PNone, PDict(FlatAddr(AddrPool[1]), Entity("Kraken", ""), NoLabel)}

\* a raw transfer; absent keys hold None
Transfer(from, fromList, to, toList, txid, hash) ==
    [kind |-> "dict",
     fromAddress |-> from, fromAddresses |-> fromList,
     toAddress |-> to, toAddresses |-> toList,
     tokenId |-> None, tokenSymbol |-> None, tokenName |-> None,
     chain |-> "bitcoin", unitValue |-> "2000000000", historicalUSD |-> None,
     blockTimestamp |-> "2025-05-05T10:45:30Z",
     txid |-> txid, transactionHash |-> hash]

\* what process_transaction receives for an absent or non-dict element
NotATransfer == [kind |-> "none"]

TransfersAddr ==
    {Transfer(f, fl, t, NoList, None, None) :
        f \in FromPayloads, fl \in FromLists, t \in ToPayloads}

\* the caches and the returned record after process_transaction
returned(r) ==
    /\ cache' = r.addr.cache
    /\ name_to_ids' = r.addr.name_to_ids
    /\ id_to_symbol' = r.tok.id_to_symbol
    /\ symbol_to_ids' = r.tok.symbol_to_ids
    /\ last_record' = r.record

\* a call processor.process_transaction(tx)
ProcessTransaction(tx) ==
    /\ returned(process_transaction([cache |-> cache, name_to_ids |-> name_to_ids],
                                    [id_to_symbol |-> id_to_symbol,
                                     symbol_to_ids |-> symbol_to_ids], tx))
    /\ UNCHANGED <<histVars, monVars, otherVars>>

NextProc == \E tx \in TransfersAddr : ProcessTransaction(tx)

SpecProc == Init /\ [][NextProc]_vars

---------------------------------------------------------------------------
(* Specification SpecMon: start, stop and the polling loops they create,
   with a callback that does not raise *)

MaxBatch == 1
NumMonTx == 2

\* raw transfers that differ in their ids only: an official txid, only a
\* transactionHash, neither
MonTxPool ==
    <<Transfer(PNone, NoList, PNone, NoList, "tx1", None),
      Transfer(PNone, NoList, PNone, NoList, None, "0xh1"),
      Transfer(PNone, NoList, PNone, NoList, None, None),
      Transfer(PNone, NoList, PNone, NoList, "tx2", "0xh2")>>
MonTransfers == {MonTxPool[k] : k \in 1..NumMonTx}

\* the lists of at most MaxBatch transfers
Batches == UNION {[1..n -> MonTransfers] : n \in 0..MaxBatch}

Responses == {OkResponse(b) : b \in Batches} \cup {NoListResponse, ErrorResponse}

NextMon ==
    \/ StartBackgroundMonitoring
    \/ StopBackgroundMonitoring
    \/ JoinReturns
    \/ \E t \in ThreadIds : LoopCheck(t)
    \/ \E t \in ThreadIds : LoopWake(t)
    \/ \E t \in ThreadIds, api_response \in Responses :
          LoopFetchReturn(t, api_response, {})

SpecMon == Init /\ [][NextMon]_vars

---------------------------------------------------------------------------
(* Specification SpecLoop: one monitor whose stops wait for the end of the
   loop, so that one polling loop runs at a time, on batches of several
   records with official ids *)

MaxLoopBatch == 2
NumLoopTx == 2

LoopTxPool ==
    <<Transfer(PNone, NoList, PNone, NoList, "tx1", None),
      Transfer(PNone, NoList, PNone, NoList, "tx2", "0xh2"),
      Transfer(PNone, NoList, PNone, NoList, None, "0xh1")>>
LoopTransfers == {LoopTxPool[k] : k \in 1..NumLoopTx}

LoopBatches == UNION {[1..n -> LoopTransfers] : n \in 0..MaxLoopBatch}

LoopResponses == {OkResponse(b) : b \in LoopBatches} \cup {ErrorResponse}

\* the positions at which the callback may raise: any of the calls a batch
\* of that length can cause
Raising(api_response) == SUBSET (1..Len(api_response.transfers))

NextLoop ==
    \/ StartBackgroundMonitoring
    \/ StopBackgroundMonitoring
    \/ JoinEnds
    \/ LoopCheck(1)
    \/ LoopWake(1)
    \/ \E api_response \in LoopResponses :
          \E raising \in Raising(api_response) :
             LoopFetchReturn(1, api_response, raising)

SpecLoop == Init /\ [][NextLoop]_vars

---------------------------------------------------------------------------
(* Specification SpecBatch: process_transactions_response on batches whose
   'transfers' is a list of well-formed and malformed elements *)

MaxBadBatch == 2

GoodTransfer == Transfer(PStr(AddrPool[1]), NoList, PNone, NoList, "tx1", None)

\* the elements of a batch: two well-formed transfers, an element that is no
\* dict, and dicts with a number as blockTimestamp, as the entity's type or as
\* chain, or with a first fromAddresses entry that is no object
BatchElements ==
    {GoodTransfer,
     Transfer(PNone, NoList,
              PDict(NestedAddr(AddrPool[4]), Entity("Kraken", "cex"), NoLabel),
              NoList, None, "0xh1"),
     NotATransfer,
     [GoodTransfer EXCEPT !.blockTimestamp = Number],
     Transfer(PDict(FlatAddr(AddrPool[1]), Entity("Binance", Number), NoLabel),
              NoList, PNone, NoList, "tx1", None),
     [GoodTransfer EXCEPT !.chain = Number],
     Transfer(PNone, List(<<NotAnObject>>), PNone, NoList, "tx1", None)}

ElementBatches == UNION {[1..n -> BatchElements] : n \in 0..MaxBadBatch}

\* the caches and the outcome after process_transactions_response
responded(transfers, r) ==
    /\ cache' = r.addr.cache
    /\ name_to_ids' = r.addr.name_to_ids
    /\ id_to_symbol' = r.tok.id_to_symbol
    /\ symbol_to_ids' = r.tok.symbol_to_ids
    /\ last_result' = [called |-> TRUE, transfers |-> transfers,
                       processed_list |-> r.processed_list, raised |-> r.raised]

\* a call processor.process_transactions_response({'transfers': transfers})
ProcessResponse(transfers) ==
    /\ responded(transfers,
                 process_transactions_response(
                     [cache |-> cache, name_to_ids |-> name_to_ids],
                     [id_to_symbol |-> id_to_symbol, symbol_to_ids |-> symbol_to_ids],
                     OkResponse(transfers)))
    /\ UNCHANGED <<histVars, procVars, monVars, concVars, restVars>>

NextBatch == \E transfers \in ElementBatches : ProcessResponse(transfers)

SpecBatch == Init /\ [][NextBatch]_vars

---------------------------------------------------------------------------
(* Specification SpecConc: the polling thread updates the address cache
   statement by statement while the caller's thread reads it *)

NextConc ==
    \/ \E identifier \in IdentifierArgs, display_name \in DisplayNameArgs,
          is_real_name \in BOOLEAN :
           UpdBegin(identifier, display_name, is_real_name)
    \/ Upd27
    \/ Upd29
    \/ Upd32
    \/ Upd34
    \/ Upd36
    \/ Upd39
    \/ \E identifier \in Ids : ForegroundRead(identifier)

SpecConc == Init /\ [][NextConc]_vars

---------------------------------------------------------------------------
(* Claims checked under SpecAddr *)

\* every string that can be a display name or an identifier in SpecAddr
NameUniverse == Names \cup Ids \cup DOMAIN name_to_ids \cup {"", NA, None}

UpdateCalled == last_call.op = "AddressCache.update"

\* C1: reverse-index consistency.  After any sequence of AddressCache.update
\* calls, for every display name n, get_identifiers_by_name(n) is exactly the
\* set of identifiers whose current get_name is n.
C1_ReverseIndexConsistent ==
    \A n \in NameUniverse :
        get_identifiers_by_name(name_to_ids, n)
            = {i \in DOMAIN cache : get_name(cache, i) = n}

\* C1 witness: the last update renamed an identifier whose former name is
\* still held by another identifier.
C1_Witness ==
    /\ UpdateCalled
    /\ last_call.old_name # None
    /\ last_call.old_name # get_name(cache, last_call.identifier)
    /\ get_identifiers_by_name(name_to_ids, last_call.old_name) # {}

\* C4: sticky realness.  Once update was called with is_real_name = True for
\* an identifier, its stored is_real flag is true in every later state.
C4_StickyReal ==
    \A i \in ever_real : i \in DOMAIN cache /\ cache[i].is_real

\* C4 witness: an identifier that was given is_real_name = True has just been
\* updated with is_real_name = False and another display name.
C4_Witness ==
    /\ UpdateCalled
    /\ last_call.identifier \in ever_real
    /\ ~last_call.is_real_name
    /\ last_call.old_name # get_name(cache, last_call.identifier)

\* C5: right after update(i, n, r) with i not null, empty or "N/A",
\* get_name(i) is n, or i when n is empty or "N/A"; with i null, empty or
\* "N/A" the call changes neither map of the cache.
C5_GetNameAfterUpdate ==
    [][ last_call'.op = "AddressCache.update" =>
          IF Effective(last_call'.identifier)
          THEN get_name(cache', last_call'.identifier)
                 = (IF last_call'.display_name \in {"", NA}
                    THEN last_call'.identifier
                    ELSE last_call'.display_name)
          ELSE UNCHANGED addrVars ]_vars

\* C5 witness: an identifier stored under a real display name has just been
\* updated with the sentinel name and is now named by itself.
C5_Witness ==
    /\ UpdateCalled
    /\ Effective(last_call.identifier)
    /\ last_call.display_name = NA
    /\ last_call.old_name \in Names
    /\ get_name(cache, last_call.identifier) = last_call.identifier

\* C6: get_all_names() is strictly ascending (sorted, no duplicates) and holds
\* exactly the display names under which at least one identifier with
\* is_real = True is currently stored.
C6_AllNamesAreRealNames ==
    LET r == get_all_names(cache, name_to_ids)
    IN  /\ \A k \in 1..(Len(r) - 1) : StrLess(r[k], r[k + 1])
        /\ {r[k] : k \in 1..Len(r)}
             = {n \in NameUniverse :
                  \E i \in DOMAIN cache : cache[i].name = n /\ cache[i].is_real}

\* C6 witness: a listed name is shared by a real and a non-real identifier,
\* after an update that named a non-real identifier.
C6_Witness ==
    \E n \in Names :
        /\ \E k \in 1..Len(get_all_names(cache, name_to_ids)) :
               get_all_names(cache, name_to_ids)[k] = n
        /\ \E i, j \in get_identifiers_by_name(name_to_ids, n) :
               cache[i].is_real /\ ~cache[j].is_real

---------------------------------------------------------------------------
(* Claims checked under SpecProc *)

\* the address strings a payload carries, at any of the places an address can be
PayloadAddresses(p) ==
    {p.str, p.address.str, p.address.address} \ {None, ""}

\* the address strings one side of a raw transfer carries
SideAddresses(primary, list) ==
    PayloadAddresses(primary)
    \cup UNION {PayloadAddresses(list.items[k]) : k \in 1..Len(list.items)}

\* the entity and label names a payload carries
PayloadNames(p) == {p.arkhamEntity.name, p.arkhamLabel.name} \ {None, ""}

Processed == last_record.kind = "record"

\* C2: identifier resolution never uses an entity or label name as an
\* identifier.  Every key of AddressCache is an address string of a from/to
\* payload and none is an entity or label name; the identifier of each side of
\* a record is an address string that side carries, and is absent when the
\* side carries none, whatever names it carries.
C2_IdentifierIsAddressOnly ==
    /\ \A i \in DOMAIN cache : i \in Addrs /\ i \notin MetaNames
    /\ Processed =>
         LET tx == last_record.raw_data
             fromAddrs == SideAddresses(tx.fromAddress, tx.fromAddresses)
             toAddrs   == SideAddresses(tx.toAddress, tx.toAddresses)
         IN  /\ last_record.from_identifier \in fromAddrs \cup {None}
             /\ last_record.to_identifier \in toAddrs \cup {None}
             /\ fromAddrs = {} => last_record.from_identifier = None
             /\ toAddrs = {} => last_record.to_identifier = None

\* C2 witness: the from payload of the last transfer carries an entity name and
\* no address; the record shows the entity name, has no from identifier, and
\* the cache, filled by the to side, holds no such key.
C2_Witness ==
    /\ Processed
    /\ SideAddresses(last_record.raw_data.fromAddress,
                     last_record.raw_data.fromAddresses) = {}
    /\ PayloadNames(last_record.raw_data.fromAddress) = {"Binance"}
    /\ last_record.from_display = "Binance (Cex)"
    /\ last_record.from_identifier = None
    /\ DOMAIN cache # {}
    /\ "Binance" \notin DOMAIN cache

---------------------------------------------------------------------------
(* Claims checked under SpecTok *)

\* the synonym groups: BTC = BITCOIN, ETH = WETH
SynonymGroups == {{"BTC", "BITCOIN"}, {"ETH", "WETH"}}

\* symbols a and b, in any letter case, are aliases of one another
SameGroup(a, b) ==
    \/ Upper(a) = Upper(b)
    \/ \E g \in SynonymGroups : Upper(a) \in g /\ Upper(b) \in g

\* symbols asked of get_ids
SymbolQueries == {"BTC", "btc", "Bitcoin", "BITCOIN", "ETH", "eth", "WETH",
                  "weth", "USDT", "usdt", NA}

\* C3: token synonym closure.  After any sequence of TokenCache.update calls,
\* get_ids gives the same set for every alias of a synonym group in any letter
\* case, and that set is the union of the token ids registered under any alias
\* of the group.
C3_SynonymClosure ==
    \A s \in SymbolQueries :
        /\ get_ids(symbol_to_ids, s)
             = {r[1] : r \in {x \in registered : SameGroup(x[2], s)}}
        /\ \A q \in SymbolQueries :
             SameGroup(s, q) => get_ids(symbol_to_ids, s) = get_ids(symbol_to_ids, q)

\* C3 witness: two token ids were registered under different aliases of the
\* BTC group and one under WETH; every alias answers with the group's ids.
C3_Witness ==
    /\ \E t1, t2 \in TokenIds :
          /\ t1 # t2
          /\ <<t1, "BTC">> \in registered /\ <<t1, "BITCOIN">> \notin registered
          /\ <<t2, "BITCOIN">> \in registered /\ <<t2, "BTC">> \notin registered
          /\ get_ids(symbol_to_ids, "btc") = {t1, t2}
    /\ \E t \in TokenIds :
          <<t, "WETH">> \in registered /\ t \in get_ids(symbol_to_ids, "eth")

---------------------------------------------------------------------------
(* Claims checked under SpecMon *)

\* the polling loops alive now
AliveLoops == {t \in ThreadIds : is_alive(t)}

\* thread t ends a cycle in this step: _fetch_and_process returns and lines
\* 191-219 run
CycleEnds(t) == threads[t].pc = "fetch" /\ threads'[t].pc # "fetch"

\* C7: at most one polling loop is alive at any time, for every sequence of
\* start and stop calls, a stop whose join timed out followed by a start
\* included; a start issued while a loop is running changes nothing.
\* The code refutes it: stop drops the thread reference although the join
\* timed out, and the next start creates a second loop beside the first.
C7_AtMostOneLoopAlive == Cardinality(AliveLoops) <= 1

\* C8: in every cycle the callback gets exactly the records of the batch whose
\* transaction identifier (_txid: txid, else transactionHash, else the
\* generated one) was not among the identifiers of the loop's previous batch,
\* each once and in order; in the first cycle every record.  Stated for the
\* cycles of loop 1, whose previous batch prev_txids keeps.
\* The code refutes it: the loop compares the raw 'txid' key only and never
\* reports a record without one.
C8_ReportsEveryNewRecord ==
    [][CycleEnds(1) =>
          cycle'.reported =
             SelectSeq(last_processed', LAMBDA tx : tx.txid \notin prev_txids)]_vars

\* C9: a loop that was running when stop set the flag begins no fetch at its
\* next test of the flag, whatever start and stop calls follow.
\* The code refutes it: a start after the timed-out join clears the flag the
\* old loop still tests.
C9_StoppedLoopStartsNoFetch ==
    [][\A t \in stopped :
          ~(threads[t].pc = "check" /\ threads'[t].pc = "fetch")]_vars

\* C10: a failed fetch never leaves the loop and never ends it.  The cycle of
\* a failed fetch invokes no callback, clears the last-processed list, leaves
\* the caches as they were and leaves the loop waiting for its next cycle in
\* the state an empty batch leaves it in: nothing remembered of the failure.
C10_FetchFailureIsEmptyBatch ==
    [][\A t \in ThreadIds :
          (CycleEnds(t) /\ cycle'.response = "error") =>
             /\ threads'[t] = [NoThread EXCEPT !.pc = "sleep"]
             /\ cycle'.reported = <<>>
             /\ last_processed' = <<>>
             /\ UNCHANGED <<addrVars, tokVars>>]_vars

\* C10 witness: the last cycle was a failed fetch that followed a batch with
\* records, and its loop is waiting for the next cycle.
C10_Witness ==
    /\ cycle.response = "error"
    /\ cycle.thread \in ThreadIds
    /\ threads[cycle.thread].pc = "sleep"
    /\ last_processed = <<>>
    /\ DOMAIN id_to_symbol # {}

---------------------------------------------------------------------------
(* Claims checked under SpecLoop *)

\* C11: an exception of the callback for one record never stops the loop.  In
\* every cycle whose fetch succeeded the callback is called with every new
\* record of the batch, in order, whichever of the calls raise; the raw ids of
\* the whole batch become the baseline of the next cycle; and the loop goes on
\* to wait for its next cycle.
C11_CallbackExceptionIsContained ==
    [][(CycleEnds(1) /\ cycle'.response = "ok") =>
          /\ cycle'.reported =
                Reported(last_processed',
                         BatchIds(last_processed')
                         \ threads[1].processed_ids_in_last_batch)
          /\ threads'[1] = [pc |-> "sleep",
                            processed_ids_in_last_batch |->
                               BatchIds(last_processed')]]_vars

\* C11 witness: the callback raised for the first of two new records of a
\* batch and was still called with the second; the loop is waiting.
C11_Witness ==
    /\ cycle.thread = 1
    /\ Len(cycle.reported) = 2
    /\ 1 \in cycle.failed
    /\ threads[1].pc = "sleep"
    /\ threads[1].processed_ids_in_last_batch = BatchIds(cycle.reported)

---------------------------------------------------------------------------
(* Claims checked under SpecConc *)

\* the statements of update, run to the end without a read in between, do
\* what AddressCache_update does: between two calls the reverse index is
\* consistent
UpdateAtomicallyConsistent ==
    upd.pc = "idle" =>
       \A i \in DOMAIN cache :
          i \in get_identifiers_by_name(name_to_ids, get_name(cache, i))

\* C12: a foreground read never observes a half-updated entry: when it finds
\* the identifier stored under a name, the identifier is in the bucket of
\* that name.
\* The code refutes it: the cache has no lock, and a read between line 32 (or
\* 36) and line 39 finds the name without the reverse entry.
C12_ReadsSeeNoHalfUpdate ==
    observed.name # None => observed.identifier \in observed.bucket

---------------------------------------------------------------------------
(* Claims checked under SpecBatch *)

\* C13: process_transactions_response never raises for a batch whose
\* 'transfers' is a list: it returns one record for every dict element,
\* malformed or not, and none for an element that is no dict.
\* The code refutes it: a number as blockTimestamp, entity type or chain, and a
\* first fromAddresses entry that is no object, each raise AttributeError,
\* which no handler of the processor catches.
C13_NoElementMakesTheBatchRaise ==
    last_result.called =>
       /\ ~last_result.raised
       /\ Len(last_result.processed_list)
            = Cardinality({k \in 1..Len(last_result.transfers) :
                              last_result.transfers[k].kind = "dict"})

---------------------------------------------------------------------------
(* Specification SpecFilt: filter.update calls interleaved with the caches
   learning addresses and tokens *)

\* what the caches learn: <<identifier, display name>> with a real name, and
\* <<token id, symbol>> as _extract_token_info registers them (the second from
\* a transfer of chain "bitcoin" that carries no token fields)
AddressesLearnt == {<<"0xB2", "Kraken">>, <<"0xA1", "Kraken">>, <<"0xA1", "Binance">>}
TokensLearnt    == {<<"bitcoin", "BTC">>, <<"BITCOIN", "BITCOIN">>, <<"ethereum", "ETH">>}

\* arguments of filter.update
MinUsdLookbackArgs == {<<NoUsd, None>>, <<Usd(1000000, 0), "1d">>, <<Usd(0, 5), "">>}
TokenSymbolArgs == {NoList, List(<<"eth", "BTC">>)}
FromNameArgs    == {NoList, List(<<"Kraken", "Binance">>), List(<<>>)}
ToNameArgs      == {NoList, List(<<"Kraken">>)}

\* a call filter.update(min_usd, lookback, token_symbols, from_address_names,
\* to_address_names)
FilterUpdate(args) ==
    /\ filt' = TransactionFilter_update(filt, name_to_ids, symbol_to_ids, args)
    /\ filt_op' = "update"
    /\ last_args' = args
    /\ keys_before' = DOMAIN get_api_params(filt, DEFAULT_LIMIT) \ {"limit"}
    /\ UNCHANGED <<addrVars, tokVars, histVars, procVars, monVars, concVars, batchVars,
                   synthVars, roundVars, callVars, pairVars, lateVars>>

\* the address cache learns a name while the filter is in use
FilterAddressLearnt(identifier, display_name) ==
    LET st == AddressCache_update([cache |-> cache, name_to_ids |-> name_to_ids],
                                  identifier, display_name, TRUE)
    IN  /\ cache' = st.cache
        /\ name_to_ids' = st.name_to_ids
        /\ filt_op' = "cache"
        /\ keys_before' = {}
        /\ UNCHANGED <<tokVars, histVars, procVars, monVars, concVars, batchVars,
                       synthVars, roundVars, callVars, pairVars, lateVars, filt, last_args>>

\* the token cache learns a token while the filter is in use
FilterTokenLearnt(token_id, symbol) ==
    LET st == TokenCache_update([id_to_symbol |-> id_to_symbol,
                                 symbol_to_ids |-> symbol_to_ids],
                                token_id, symbol)
    IN  /\ id_to_symbol' = st.id_to_symbol
        /\ symbol_to_ids' = st.symbol_to_ids
        /\ registered' = registered \cup {<<token_id, StoredSymbol(symbol)>>}
        /\ filt_op' = "cache"
        /\ keys_before' = {}
        /\ UNCHANGED <<addrVars, last_call, ever_real, procVars, monVars, concVars,
                       batchVars, synthVars, roundVars, callVars, pairVars, lateVars, filt, last_args>>

NextFilt ==
    \/ \E ul \in MinUsdLookbackArgs, token_symbols \in TokenSymbolArgs,
          from_address_names \in FromNameArgs, to_address_names \in ToNameArgs :
          FilterUpdate(FilterArgs(ul[1], ul[2], token_symbols,
                                  from_address_names, to_address_names))
    \/ \E a \in AddressesLearnt : FilterAddressLearnt(a[1], a[2])
    \/ \E t \in TokensLearnt : FilterTokenLearnt(t[1], t[2])

SpecFilt == Init /\ [][NextFilt]_vars

\* the parameters the filter gives the next poll
CurrentParams == get_api_params(filt, DEFAULT_LIMIT)

\* C14: the resolution of names and symbols is a snapshot: a cache update
\* after filter.update leaves get_api_params as it was, and a filter.update
\* resolves against the caches as they are at that call
C14_ResolutionIsASnapshot ==
    [][/\ filt_op' = "cache" =>
            get_api_params(filt', DEFAULT_LIMIT) = get_api_params(filt, DEFAULT_LIMIT)
       /\ filt_op' = "update" =>
            /\ filt'.allowed_token_ids =
                 IF GivenList(last_args'.token_symbols)
                 THEN [active |-> TRUE,
                       ids |-> find_ids_by_symbols(symbol_to_ids,
                                                   last_args'.token_symbols.items)]
                 ELSE Inactive
            /\ filt'.allowed_from_ids =
                 IF GivenList(last_args'.from_address_names)
                 THEN [active |-> TRUE,
                       ids |-> find_identifiers_by_names(name_to_ids,
                                          last_args'.from_address_names.items)]
                 ELSE Inactive
            /\ filt'.allowed_to_ids =
                 IF GivenList(last_args'.to_address_names)
                 THEN [active |-> TRUE,
                       ids |-> find_identifiers_by_names(name_to_ids,
                                          last_args'.to_address_names.items)]
                 ELSE Inactive]_vars

\* the caches know more for the filter's criteria than the filter resolved:
\* the parameters still name only the snapshot
C14_Witness ==
    /\ filt_op = "cache"
    /\ GivenList(filt.from_address_names)
    /\ filt.allowed_from_ids.ids # {}
    /\ filt.allowed_from_ids.ids
         # find_identifiers_by_names(name_to_ids, filt.from_address_names.items)
    /\ GivenList(filt.token_symbols)
    /\ filt.allowed_token_ids.ids
         # find_ids_by_symbols(symbol_to_ids, filt.token_symbols.items)

\* a filter built fresh and updated once with the arguments of the last call
FreshlyUpdated ==
    TransactionFilter_update(TransactionFilter_init, name_to_ids, symbol_to_ids,
                             last_args)

\* C15: every filter.update replaces all five criteria: right after a call
\* the parameters are those of a fresh filter given the same arguments on the
\* same caches, each parameter is present only if the last call passed its
\* criterion, and update() with no arguments leaves exactly {limit}
C15_UpdateReplacesAllCriteria ==
    /\ filt_op = "update" =>
         get_api_params(filt, DEFAULT_LIMIT) = get_api_params(FreshlyUpdated, DEFAULT_LIMIT)
    /\ "usdGte" \in DOMAIN CurrentParams <=> last_args.min_usd.given
    /\ "timeLast" \in DOMAIN CurrentParams <=> ~Falsy(last_args.lookback)
    /\ "tokens" \in DOMAIN CurrentParams => GivenList(last_args.token_symbols)
    /\ "from" \in DOMAIN CurrentParams => GivenList(last_args.from_address_names)
    /\ "to" \in DOMAIN CurrentParams => GivenList(last_args.to_address_names)
    /\ last_args = NoArgs => CurrentParams = [k \in {"limit"} |-> IntVal(DEFAULT_LIMIT)]

\* update() with no arguments was called on a filter that had all five
\* parameters in force
C15_Witness ==
    /\ filt_op = "update"
    /\ last_args = NoArgs
    /\ keys_before = {"usdGte", "timeLast", "tokens", "from", "to"}
    /\ DOMAIN CurrentParams = {"limit"}

\* the filter with one dimension made inactive
WithoutTokens == [filt EXCEPT !.allowed_token_ids = Inactive]
WithoutFrom   == [filt EXCEPT !.allowed_from_ids = Inactive]
WithoutTo     == [filt EXCEPT !.allowed_to_ids = Inactive]

\* C16: when the requested symbols (from names, to names) resolve to no
\* cached id, get_api_params leaves tokens (from, to) out, and the parameters
\* are those of the same filter with that dimension inactive
C16_UnresolvedDimensionIsOmitted ==
    /\ (GivenList(filt.token_symbols) /\ filt.allowed_token_ids.ids = {}) =>
          /\ "tokens" \notin DOMAIN CurrentParams
          /\ CurrentParams = get_api_params(WithoutTokens, DEFAULT_LIMIT)
    /\ (GivenList(filt.from_address_names) /\ filt.allowed_from_ids.ids = {}) =>
          /\ "from" \notin DOMAIN CurrentParams
          /\ CurrentParams = get_api_params(WithoutFrom, DEFAULT_LIMIT)
    /\ (GivenList(filt.to_address_names) /\ filt.allowed_to_ids.ids = {}) =>
          /\ "to" \notin DOMAIN CurrentParams
          /\ CurrentParams = get_api_params(WithoutTo, DEFAULT_LIMIT)

\* symbols and names were requested of caches that know none of them, while the
\* other criteria are in force
C16_Witness ==
    /\ filt_op = "update"
    /\ GivenList(filt.token_symbols) /\ filt.allowed_token_ids.ids = {}
    /\ GivenList(filt.from_address_names) /\ filt.allowed_from_ids.ids = {}
    /\ GivenList(filt.to_address_names) /\ filt.allowed_to_ids.ids = {}
    /\ DOMAIN CurrentParams = {"limit", "usdGte", "timeLast"}

\* C17: after filter.update a dimension whose list is None (or empty) is
\* inactive, it holds no set; a dimension whose names or symbols were given
\* holds a set, the empty set when nothing resolved, which is not the
\* inactive value, and the parameter builder receives that empty set
C17_EmptyIsNotInactive ==
    /\ filt.allowed_token_ids.active <=> GivenList(last_args.token_symbols)
    /\ filt.allowed_from_ids.active <=> GivenList(last_args.from_address_names)
    /\ filt.allowed_to_ids.active <=> GivenList(last_args.to_address_names)
    /\ \A allowed \in {filt.allowed_token_ids, filt.allowed_from_ids,
                       filt.allowed_to_ids} :
          /\ ~allowed.active => allowed = Inactive
          /\ (allowed.active /\ allowed.ids = {}) => allowed # Inactive

\* one dimension is inactive and another is active with the empty set
C17_Witness ==
    /\ filt_op = "update"
    /\ ~GivenList(last_args.token_symbols)
    /\ filt.allowed_token_ids = Inactive
    /\ GivenList(last_args.from_address_names)
    /\ filt.allowed_from_ids = [active |-> TRUE, ids |-> {}]
    /\ last_args.to_address_names = NoList
    /\ filt.allowed_to_ids = Inactive

\* the ids registered under any alias of the synonym groups of the symbols
RegisteredUnder(symbols) ==
    {r[1] : r \in {x \in registered :
                      \E i \in 1..Len(symbols) : SameGroup(x[2], symbols[i])}}

\* C18: right after filter.update with symbols of which at least one id
\* resolves, the tokens parameter is the comma-joined ascending sequence of
\* the lower-cased ids registered under any alias of the requested symbols'
\* synonym groups, each value once
C18_TokensAreSortedLowerCasedUnion ==
    (/\ filt_op = "update"
     /\ GivenList(last_args.token_symbols)
     /\ RegisteredUnder(last_args.token_symbols.items) # {}) =>
        /\ "tokens" \in DOMAIN CurrentParams
        /\ CurrentParams["tokens"] =
             StrVal(JoinComma(Sorted({Lower(token_id) :
                     token_id \in RegisteredUnder(last_args.token_symbols.items)})))

\* the ids the filter holds are those registered under the aliases (the
\* union itself is right; the rendering is what C18 is about)
TokensResolveToRegisteredUnion ==
    (filt_op = "update" /\ GivenList(last_args.token_symbols)) =>
        filt.allowed_token_ids.ids = RegisteredUnder(last_args.token_symbols.items)

\* C19: right after filter.update with names of which at least one
\* identifier resolves, from (and to) is the comma-joined ascending sequence
\* of the lower-cased identifiers stored under any of the requested names
C19_FromToAreSortedLowerCased ==
    filt_op = "update" =>
      /\ (/\ GivenList(last_args.from_address_names)
          /\ find_identifiers_by_names(name_to_ids,
                                       last_args.from_address_names.items) # {}) =>
            /\ "from" \in DOMAIN CurrentParams
            /\ CurrentParams["from"] =
                 StrVal(JoinComma(Sorted({Lower(identifier) : identifier \in
                     find_identifiers_by_names(name_to_ids,
                                      last_args.from_address_names.items)})))
      /\ (/\ GivenList(last_args.to_address_names)
          /\ find_identifiers_by_names(name_to_ids,
                                       last_args.to_address_names.items) # {}) =>
            /\ "to" \in DOMAIN CurrentParams
            /\ CurrentParams["to"] =
                 StrVal(JoinComma(Sorted({Lower(identifier) : identifier \in
                     find_identifiers_by_names(name_to_ids,
                                      last_args.to_address_names.items)})))

\* the identifiers are all there, in ascending order, in the case the cache
\* stores them in
FromToAreSortedIdentifiers ==
    filt_op = "update" =>
      /\ "from" \in DOMAIN CurrentParams =>
            CurrentParams["from"] =
              StrVal(JoinComma(Sorted(find_identifiers_by_names(name_to_ids,
                                        last_args.from_address_names.items))))
      /\ "to" \in DOMAIN CurrentParams =>
            CurrentParams["to"] =
              StrVal(JoinComma(Sorted(find_identifiers_by_names(name_to_ids,
                                        last_args.to_address_names.items))))

---------------------------------------------------------------------------
(* Specification SpecSynth: raw transfers normalised one after another, by
   the same processor or by a new one on empty caches *)

\* a transfer without txid and transactionHash
SynthBase ==
    [Transfer(PStr("0xA1"), NoList, PStr("0xB2"), NoList, None, None)
        EXCEPT !.tokenId = "bitcoin", !.tokenSymbol = "BTC"]

\* SynthBase, SynthBase changed in one hashed field, in two, with chain absent
\* or the literal 'N/A', with a tokenName added, and SynthBase with an
\* official id
SynthTransfers ==
    {SynthBase,
     [SynthBase EXCEPT !.blockTimestamp = "2025-05-05T10:45:31Z"],
     [SynthBase EXCEPT !.fromAddress = PStr("0xB2")],
     [SynthBase EXCEPT !.toAddress = PStr("0xA1")],
     [SynthBase EXCEPT !.fromAddress = PStr("0xB2"), !.toAddress = PStr("0xA1")],
     [SynthBase EXCEPT !.tokenId = "ethereum"],
     [SynthBase EXCEPT !.unitValue = "1|2"],
     [SynthBase EXCEPT !.chain = "ethereum"],
     [SynthBase EXCEPT !.chain = None],
     [SynthBase EXCEPT !.chain = NA],
     [SynthBase EXCEPT !.tokenName = "Bitcoin"],
     [SynthBase EXCEPT !.txid = "tx1"],
     [SynthBase EXCEPT !.transactionHash = "0xh1"],
     [SynthBase EXCEPT !.txid = "tx2", !.transactionHash = "0xh1"]}

\* the caches, the returned record and the history after a normalisation
normalised(r) ==
    /\ returned(r)
    /\ norm_last' = r.record
    /\ norm_before' = norm_last

\* a call processor.process_transaction(tx) of the id study
Normalise(tx) ==
    /\ normalised(process_transaction([cache |-> cache, name_to_ids |-> name_to_ids],
                                      [id_to_symbol |-> id_to_symbol,
                                       symbol_to_ids |-> symbol_to_ids], tx))
    /\ UNCHANGED <<histVars, monVars, concVars, batchVars, filtVars, roundVars, callVars, pairVars, lateVars>>

\* a new DataProcessor on new, empty caches takes over
NewProcessor ==
    /\ cache' = AddressCache_init.cache
    /\ name_to_ids' = AddressCache_init.name_to_ids
    /\ id_to_symbol' = TokenCache_init.id_to_symbol
    /\ symbol_to_ids' = TokenCache_init.symbol_to_ids
    /\ UNCHANGED <<histVars, procVars, monVars, otherVars>>

NextSynth ==
    \/ \E tx \in SynthTransfers : Normalise(tx)
    \/ NewProcessor

SpecSynth == Init /\ [][NextSynth]_vars

\* the six values line 243-250 hashes, for a returned record: the timestamp,
\* the from, to and token identifiers, the raw unit value and
\* tx.get('chain', 'N/A')
SixFields(record) ==
    <<record.raw_data.blockTimestamp, record.from_identifier, record.to_identifier,
      record.token_id, record.raw_data.unitValue,
      IF record.raw_data.chain = None THEN NA ELSE record.raw_data.chain>>

\* the raw transfer of the record has neither txid nor transactionHash
LacksOfficialId(record) ==
    /\ record.kind = "record"
    /\ Falsy(record.raw_data.txid)
    /\ Falsy(record.raw_data.transactionHash)

\* txid, or transactionHash when txid is absent
OfficialId(record) ==
    IF ~Falsy(record.raw_data.txid) THEN record.raw_data.txid
    ELSE record.raw_data.transactionHash

\* the positions at which two tuples of six values differ
Differing(a, b) == {k \in 1..6 : a[k] # b[k]}

\* C20: two transfers without txid and transactionHash, normalised one after
\* the other in whatever cache state and by whichever processor, get the same
\* _txid exactly when their timestamp, from, to, token id, unit value and chain
\* are the same, so a change in any one of the six changes the id; a transfer
\* with a txid or transactionHash keeps it as its _txid
C20_SyntheticIdIsAFunctionOfSixFields ==
    /\ (LacksOfficialId(norm_last) /\ LacksOfficialId(norm_before)) =>
          (norm_last.txid = norm_before.txid <=> SixFields(norm_last) = SixFields(norm_before))
    /\ \A record \in {norm_last, norm_before} :
          (record.kind = "record" /\ ~LacksOfficialId(record)) =>
              record.txid = OfficialId(record)

\* two transfers without an official id that differ in the chain only were
\* normalised one after the other and got different ids
C20_Witness ==
    /\ LacksOfficialId(norm_last) /\ LacksOfficialId(norm_before)
    /\ Differing(SixFields(norm_last), SixFields(norm_before)) = {6}
    /\ norm_last.txid # norm_before.txid
    /\ cache # AddressCache_init.cache

\* the same transfer was normalised twice, the second time by a processor
\* whose caches knew its addresses and token already
SameTransferTwice ==
    /\ LacksOfficialId(norm_last)
    /\ norm_last.raw_data = norm_before.raw_data
    /\ norm_last.txid = norm_before.txid

\* C21: two raw transfers without txid and transactionHash that are not the
\* same dict never get the same _txid
C21_DistinctRecordsGetDistinctIds ==
    (/\ LacksOfficialId(norm_last) /\ LacksOfficialId(norm_before)
     /\ norm_last.raw_data # norm_before.raw_data) =>
        norm_last.txid # norm_before.txid

---------------------------------------------------------------------------
(* Specification SpecRound: a monitor's caches are populated, exported, and
   the export is loaded into a newly constructed monitor *)

\* address_cache.update(identifier, display_name, is_real_name) on the original
RoundAddressUpdate(identifier, display_name, is_real_name) ==
    LET st == AddressCache_update([cache |-> cache, name_to_ids |-> name_to_ids],
                                  identifier, display_name, is_real_name)
    IN  /\ cache' = st.cache
        /\ name_to_ids' = st.name_to_ids
        /\ exported' = NoExport
        /\ loaded' = NotLoaded
        /\ UNCHANGED <<tokVars, histVars, procVars, monVars, concVars, batchVars,
                       filtVars, synthVars, callVars, pairVars, lateVars>>

\* token_cache.update(token_id, symbol) on the original
RoundTokenUpdate(token_id, symbol) ==
    LET st == TokenCache_update([id_to_symbol |-> id_to_symbol,
                                 symbol_to_ids |-> symbol_to_ids],
                                token_id, symbol)
    IN  /\ id_to_symbol' = st.id_to_symbol
        /\ symbol_to_ids' = st.symbol_to_ids
        /\ exported' = NoExport
        /\ loaded' = NotLoaded
        /\ UNCHANGED <<addrVars, histVars, procVars, monVars, concVars, batchVars,
                       filtVars, synthVars, callVars, pairVars, lateVars>>

\* the export is kept and loaded into the caches of a new monitor
export_and_load(full_state) ==
    /\ exported' = [done |-> TRUE, state |-> full_state]
    /\ loaded' = load_full_cache_state(AddressCache_init, TokenCache_init, full_state)

\* state = monitor.get_full_cache_state();
\* ArkhamMonitor(...).load_full_cache_state(state)
ExportAndLoad ==
    /\ export_and_load(get_full_cache_state(
           [cache |-> cache, name_to_ids |-> name_to_ids],
           [id_to_symbol |-> id_to_symbol, symbol_to_ids |-> symbol_to_ids]))
    /\ UNCHANGED <<addrVars, tokVars, histVars, procVars, monVars, concVars,
                   batchVars, filtVars, synthVars, callVars, pairVars, lateVars>>

NextRound ==
    \/ \E identifier \in Ids, display_name \in Names, is_real_name \in BOOLEAN :
          RoundAddressUpdate(identifier, display_name, is_real_name)
    \/ \E t \in TokensLearnt : RoundTokenUpdate(t[1], t[2])
    \/ ExportAndLoad

SpecRound == Init /\ [][NextRound]_vars

\* lists of names asked of find_identifiers_by_names
NameLists == {<<>>, <<NamePool[1]>>, <<NamePool[1], NamePool[2]>>, <<"Nobody">>,
              <<"Nobody", NamePool[2]>>, <<NamePool[2], NamePool[2]>>}

---------------------------------------------------------------------------
(* Specification SpecCall: the caller fetches with get_transactions and
   initialize_cache, the transport answering or failing *)

\* transfers the transport answers with
CallTransfers ==
    {GoodTransfer, LoopTxPool[1], LoopTxPool[3],
     Transfer(PNone, NoList,
              PDict(NestedAddr(AddrPool[4]), Entity("Kraken", "cex"), NoLabel),
              NoList, "tx2", None)}
CallResponses ==
    {OkResponse(b) : b \in UNION {[1..n -> CallTransfers] : n \in 0..MaxLoopBatch}}
    \cup {ErrorResponse}

\* the monitor and the caller after get_transactions
got_transactions(response_kind, r, v) ==
    /\ cache' = r.addr.cache
    /\ name_to_ids' = r.addr.name_to_ids
    /\ id_to_symbol' = r.tok.id_to_symbol
    /\ symbol_to_ids' = r.tok.symbol_to_ids
    /\ last_processed' = r.last_processed
    /\ called' = [op |-> "get_transactions", response |-> response_kind,
                  raised |-> v.raised, value |-> v.value]

\* lines 141-178 after _fetch_and_process returned r
after_fetch(response_kind, r) ==
    got_transactions(response_kind, r, get_transactions_value(r))

\* a call monitor.get_transactions()
GetTransactions(api_response) ==
    /\ after_fetch(api_response.kind,
                   fetch_and_process([cache |-> cache, name_to_ids |-> name_to_ids],
                                     [id_to_symbol |-> id_to_symbol,
                                      symbol_to_ids |-> symbol_to_ids],
                                     api_response))
    /\ UNCHANGED <<histVars, procVars, concVars, batchVars, filtVars, synthVars,
                   roundVars, pairVars, lateVars, monitor_thread, stop_flag, threads, main_pc, cycle,
                   stopped, prev_txids>>

\* the monitor and the caller after initialize_cache
initialized(response_kind, r) ==
    /\ cache' = r.addr.cache
    /\ name_to_ids' = r.addr.name_to_ids
    /\ id_to_symbol' = r.tok.id_to_symbol
    /\ symbol_to_ids' = r.tok.symbol_to_ids
    /\ called' = [op |-> "initialize_cache", response |-> response_kind,
                  raised |-> r.raised, value |-> r.value]

\* a call monitor.initialize_cache()
InitializeCache(api_response) ==
    /\ initialized(api_response.kind,
                   initialize_cache([cache |-> cache, name_to_ids |-> name_to_ids],
                                    [id_to_symbol |-> id_to_symbol,
                                     symbol_to_ids |-> symbol_to_ids],
                                    api_response))
    /\ UNCHANGED <<histVars, procVars, monVars, concVars, batchVars, filtVars,
                   synthVars, roundVars, pairVars, lateVars>>

NextCall ==
    \/ \E api_response \in CallResponses : GetTransactions(api_response)
    \/ \E api_response \in CallResponses : InitializeCache(api_response)

SpecCall == Init /\ [][NextCall]_vars

\* what the caller of the last operation gets when the fetch succeeds and
\* brings no transfers
EmptyFetchValue ==
    IF called.op = "get_transactions"
    THEN get_transactions_value(
             fetch_and_process([cache |-> cache, name_to_ids |-> name_to_ids],
                               [id_to_symbol |-> id_to_symbol,
                                symbol_to_ids |-> symbol_to_ids],
                               OkResponse(<<>>))).value
    ELSE initialize_cache([cache |-> cache, name_to_ids |-> name_to_ids],
                          [id_to_symbol |-> id_to_symbol,
                           symbol_to_ids |-> symbol_to_ids],
                          OkResponse(<<>>)).value

\* C23: when the transport fails during get_transactions or initialize_cache
\* the caller can tell: the call raises, or it returns a value other than the
\* one a successful fetch without transfers gives
C23_FailedFetchIsSurfaced ==
    (called.op # "none" /\ called.response = "error") =>
        called.raised \/ called.value # EmptyFetchValue

\* initialize_cache tells its caller of a failed fetch by returning False
InitializeCacheReturnsFalseOnError ==
    (called.op = "initialize_cache" /\ called.response = "error") =>
        called.value = BoolValue(FALSE) /\ EmptyFetchValue = BoolValue(TRUE)

\* C24: find_identifiers_by_names(names) is the union of
\* get_identifiers_by_name(n) over the names of the list: a name the cache
\* does not know adds nothing, every identifier under a listed name is in, the
\* empty list gives the empty set
C24_FindIsUnionOverNames ==
    \A names \in NameLists :
       /\ find_identifiers_by_names(name_to_ids, names)
            = UNION {get_identifiers_by_name(name_to_ids, n) : n \in Elements(names)}
       /\ find_identifiers_by_names(name_to_ids, names)
            = {identifier \in DOMAIN cache :
                  cache[identifier].name \in Elements(names)}
       /\ names = <<>> => find_identifiers_by_names(name_to_ids, names) = {}

\* the second name of a list has two identifiers, the first is unknown
C24_Witness ==
    /\ "Nobody" \notin DOMAIN name_to_ids
    /\ Cardinality(get_identifiers_by_name(name_to_ids, NamePool[2])) = 2
    /\ find_identifiers_by_names(name_to_ids, <<"Nobody", NamePool[2]>>)
         = get_identifiers_by_name(name_to_ids, NamePool[2])
    /\ last_call.op = "AddressCache.update"

---------------------------------------------------------------------------
(* Specification SpecLife: everything that writes the caches in normal
   operation, interleaved: direct updates, normalisations, filter updates and
   the cycles of a polling loop *)

LifeAddressUpdates ==
    {<<"0xA1", "Kraken", TRUE>>, <<"0xA1", "Binance", FALSE>>, <<None, "Kraken", TRUE>>}
LifeTokenUpdates == {<<"bitcoin", "BTC">>, <<"bitcoin", "WETH">>, <<None, "BTC">>}
LifeTransfers ==
    {Transfer(PNone, NoList,
              PDict(NestedAddr(AddrPool[4]), Entity("Kraken", "cex"), NoLabel),
              NoList, None, "0xh1")}
LifeFilterArgs ==
    {NoArgs,
     FilterArgs(NoUsd, None, List(<<"eth", "BTC">>), List(<<"Kraken", "Binance">>),
                NoList)}
LifeResponses == {ErrorResponse, OkResponse(<<GoodTransfer>>)}

NextLife ==
    \/ \E a \in LifeAddressUpdates : RoundAddressUpdate(a[1], a[2], a[3])
    \/ \E t \in LifeTokenUpdates : RoundTokenUpdate(t[1], t[2])
    \/ \E tx \in LifeTransfers : ProcessTransaction(tx)
    \/ \E args \in LifeFilterArgs : FilterUpdate(args)
    \/ StartBackgroundMonitoring
    \/ LoopCheck(1)
    \/ LoopWake(1)
    \/ \E api_response \in LifeResponses : LoopFetchReturn(1, api_response, {})

SpecLife == Init /\ [][NextLife]_vars

\* C25: no step of normal operation (a cache update, a normalisation, a
\* filter update, a polling cycle) removes an identifier from AddressCache or
\* a token id from TokenCache
C25_CacheEntriesAreNeverDeleted ==
    [][/\ DOMAIN cache \subseteq DOMAIN cache'
       /\ DOMAIN id_to_symbol \subseteq DOMAIN id_to_symbol']_vars

\* both caches hold several entries, one identifier was renamed and its old
\* name's bucket deleted, a filter update and a polling cycle have run
C25_Witness ==
    /\ Cardinality(DOMAIN cache) >= 2
    /\ Cardinality(DOMAIN id_to_symbol) >= 2
    /\ "0xA1" \in DOMAIN cache /\ cache["0xA1"].name = "Binance"
    /\ "Kraken" \notin DOMAIN name_to_ids
    /\ filt_op = "update"
    /\ threads[1].pc = "sleep"
    /\ last_record.kind = "record"

---------------------------------------------------------------------------
(* Specification SpecPair: a processor on fresh caches is given transfers one
   by one with process_transaction, as test_processor_manual.py does, until a
   call raises *)

MaxPairLen == 4

\* the caches, the record and the history after one more call
one_more(tx, r) ==
    /\ returned(r)
    /\ singles' = [transfers |-> Append(singles.transfers, tx),
                   records |-> IF r.record.kind = "record"
                               THEN Append(singles.records, r.record)
                               ELSE singles.records,
                   raised |-> r.record.kind = "exception"]

\* result = processor.process_transaction(tx); if result: append it
OneByOne(tx) ==
    /\ Len(singles.transfers) < MaxPairLen
    /\ ~singles.raised
    /\ one_more(tx, process_transaction([cache |-> cache, name_to_ids |-> name_to_ids],
                                        [id_to_symbol |-> id_to_symbol,
                                         symbol_to_ids |-> symbol_to_ids], tx))
    /\ UNCHANGED <<histVars, monVars, concVars, batchVars, filtVars, synthVars,
                   roundVars, callVars, lateVars>>

NextPair == \E tx \in BatchElements : OneByOne(tx)

SpecPair == Init /\ [][NextPair]_vars

\* b, the outcome of process_transactions_response, is that of the calls made
\* one by one: the same caches, the same records in the same order, and an
\* exception in the one exactly when in the other
SameAsOneByOne(b) ==
    /\ b.raised = singles.raised
    /\ b.addr = [cache |-> cache, name_to_ids |-> name_to_ids]
    /\ b.tok = [id_to_symbol |-> id_to_symbol, symbol_to_ids |-> symbol_to_ids]
    /\ ~b.raised =>
          /\ Len(b.processed_list) = Len(singles.records)
          /\ b.processed_list = singles.records

\* C26: process_transactions_response on a list of transfers, from fresh
\* caches, gives as many records, in input order, and leaves both caches in
\* the same state as process_transaction called on each element in order
C26_BatchAgreesWithOneByOne ==
    SameAsOneByOne(process_transactions_response(AddressCache_init, TokenCache_init,
                                                 OkResponse(singles.transfers)))

\* three elements were processed, one of them not a dict: two records
C26_Witness ==
    /\ Len(singles.transfers) = 3
    /\ ~singles.raised
    /\ Len(singles.records) = 2
    /\ singles.transfers[2] = NotATransfer
    /\ singles.records[1].txid # singles.records[2].txid
    /\ DOMAIN cache # {}

---------------------------------------------------------------------------
(* Further claims checked under SpecProc *)

\* the identifiers of the two sides of a record
RecordIdentifiers(record) ==
    {record.from_identifier, record.to_identifier} \ {None}

\* the display names of the sides of a record that have an identifier
IndexedNames(record) ==
    (IF record.from_identifier # None THEN {record.from_display} ELSE {})
    \cup (IF record.to_identifier # None THEN {record.to_display} ELSE {})

\* C27: a side from whose payload no address string is extracted writes
\* nothing to AddressCache, whatever entity or label names it carries: the
\* normalisation changes the identifier map at the identifiers of the record
\* only, adds to the reverse index no name but the display names of the sides
\* that have an identifier, and leaves both maps as they were when neither
\* side has one
C27_NoAddressNoCacheWrite ==
    [][last_record'.kind = "record" =>
         /\ \A i \in DOMAIN cache' \ RecordIdentifiers(last_record') :
               i \in DOMAIN cache /\ cache'[i] = cache[i]
         /\ DOMAIN name_to_ids' \subseteq DOMAIN name_to_ids \cup IndexedNames(last_record')
         /\ RecordIdentifiers(last_record') = {} =>
               cache' = cache /\ name_to_ids' = name_to_ids]_vars

\* a transfer whose from payload names an entity and a label but no address,
\* and whose to side is absent, was normalised on a populated cache: the
\* record shows the names, the cache does not
C27_Witness ==
    /\ Processed
    /\ RecordIdentifiers(last_record) = {}
    /\ PayloadNames(last_record.raw_data.fromAddress) = {"Binance", "Hot Wallet"}
    /\ last_record.from_display = "Binance (Cex) - Hot Wallet"
    /\ last_record.from_display \notin DOMAIN name_to_ids
    /\ DOMAIN cache # {}

\* what resolving the primary field alone gives for a side: its identifier
\* and display name do not depend on the cache
FromPrimary(primary) ==
    extract_address_info([cache |-> cache, name_to_ids |-> name_to_ids], primary)

\* the side's identifier and display name are those of the primary field
PrimaryDecides(primary, identifier, display) ==
    /\ identifier = FromPrimary(primary).identifier
    /\ display = FromPrimary(primary).display_name

\* C29: the list fallback is applied only when the primary field
\* (fromAddress / toAddress) is absent: whenever the primary field is present
\* in the raw record, the identifier and the display name of that side of the
\* normalised record are the ones resolved from the primary field
C29_FallbackOnlyWhenPrimaryAbsent ==
    Processed =>
       /\ last_record.raw_data.fromAddress.kind # "none" =>
             PrimaryDecides(last_record.raw_data.fromAddress,
                            last_record.from_identifier, last_record.from_display)
       /\ last_record.raw_data.toAddress.kind # "none" =>
             PrimaryDecides(last_record.raw_data.toAddress,
                            last_record.to_identifier, last_record.to_display)

\* a primary field from which an address is extracted decides the side
PrimaryWithAddressDecides ==
    Processed /\ ~Falsy(FromPrimary(last_record.raw_data.fromAddress).identifier) =>
       PrimaryDecides(last_record.raw_data.fromAddress,
                      last_record.from_identifier, last_record.from_display)

\* the from side of the raw transfer took the list fallback: the primary
\* field gave no identifier and fromAddresses is a non-empty list
FromFallbackUsed(tx) ==
    /\ Falsy(FromPrimary(tx.fromAddress).identifier)
    /\ tx.fromAddresses.kind = "list"
    /\ Len(tx.fromAddresses.items) > 0

\* the address strings that only entries after the first of fromAddresses
\* carry: neither the first entry nor any other field of the transfer has them
LaterOnly(tx) ==
    UNION {PayloadAddresses(tx.fromAddresses.items[k]) :
              k \in 2..Len(tx.fromAddresses.items)}
    \ (PayloadAddresses(tx.fromAddresses.items[1])
       \cup PayloadAddresses(tx.fromAddress)
       \cup SideAddresses(tx.toAddress, tx.toAddresses))

\* the identifier map and the reverse index hold for identifier a what they
\* held before the step
Untouched(a) ==
    /\ a \in DOMAIN cache' <=> a \in DOMAIN cache
    /\ a \in DOMAIN cache => cache'[a] = cache[a]
    /\ \A n \in DOMAIN name_to_ids' :
          a \in name_to_ids'[n] => n \in DOMAIN name_to_ids /\ a \in name_to_ids[n]

\* C30: when the list fallback is used only the first entry of the list is
\* resolved: an address carried only by later entries is not added to
\* AddressCache by the normalisation of that record, nor changed in it, and is
\* neither the identifier nor the display name of a side of the record
C30_OnlyFirstListEntryIsResolved ==
    [][last_record'.kind = "record" /\ FromFallbackUsed(last_record'.raw_data) =>
          \A a \in LaterOnly(last_record'.raw_data) :
             /\ Untouched(a)
             /\ a \notin RecordIdentifiers(last_record')
             /\ DisplayName(a, None, "", None)
                   \notin {last_record'.from_display, last_record'.to_display}]_vars

\* a transfer without fromAddress whose fromAddresses has two entries was
\* normalised: the side is the first entry's, and the address of the second
\* entry, carried by nothing else in the transfer, is not in the cache
C30_Witness ==
    /\ Processed
    /\ FromFallbackUsed(last_record.raw_data)
    /\ LaterOnly(last_record.raw_data) = {AddrPool[1]}
    /\ last_record.from_identifier = AddrPool[2]
    /\ last_record.from_display = "Hot Wallet"
    /\ AddrPool[1] \notin DOMAIN cache
    /\ AddrPool[2] \in DOMAIN cache

\* the first entry of the list is the only one tried: when no address is
\* extracted from it the side has no identifier, whatever later entries carry
FirstEntryWithoutAddress ==
    /\ Processed
    /\ FromFallbackUsed(last_record.raw_data)
    /\ PayloadAddresses(last_record.raw_data.fromAddresses.items[1]) = {}
    /\ LaterOnly(last_record.raw_data) = {AddrPool[1]}
    /\ last_record.from_identifier = None
    /\ last_record.from_display = "Hot Wallet"

\* the identifier is entered in the cache by this step, and by the from side
\* of the record alone
EnteredByFromSide(identifier) ==
    /\ identifier # None
    /\ identifier \notin DOMAIN cache
    /\ identifier \in DOMAIN cache'
    /\ last_record'.to_identifier # identifier

\* C31: for every shape of the fromAddress payload the is_real flag that
\* identifier resolution returns is true exactly when the payload carries an
\* entity name or a label name, whether or not an address is extracted from
\* it; a bare string gives false; and the flag is the one stored by
\* AddressCache.update when the side enters its identifier in the cache
C31_IsRealIffEntityOrLabelName ==
    [][last_record'.kind = "record" =>
          /\ FromPrimary(last_record'.raw_data.fromAddress).is_real_name
                <=> PayloadNames(last_record'.raw_data.fromAddress) # {}
          /\ last_record'.raw_data.fromAddress.kind = "str" =>
                ~FromPrimary(last_record'.raw_data.fromAddress).is_real_name
          /\ EnteredByFromSide(FromPrimary(last_record'.raw_data.fromAddress).identifier) =>
                (cache'[last_record'.from_identifier].is_real
                    <=> PayloadNames(last_record'.raw_data.fromAddress) # {})]_vars

\* a payload with a label name and no address was resolved: the flag is true
\* although there is no identifier
C31_Witness ==
    /\ Processed
    /\ PayloadNames(last_record.raw_data.fromAddress) = {"Hot Wallet"}
    /\ PayloadAddresses(last_record.raw_data.fromAddress) = {}
    /\ last_record.raw_data.fromAddresses.kind = "none"
    /\ FromPrimary(last_record.raw_data.fromAddress).is_real_name
    /\ last_record.from_identifier = None

---------------------------------------------------------------------------
(* Further claims checked under SpecMon *)

\* the record is among those the callback was called with in the cycle
\* that ends in this step
IsReported(record) ==
    \E k \in 1..Len(cycle'.reported) : cycle'.reported[k] = record

\* C28: the diff is one-step: in every cycle of loop 1 a record of the batch
\* is withheld from the callback exactly when its transaction id was in the
\* previous batch of the loop, so an id that was reported earlier and was not
\* in the previous batch (the previous fetch failed, or did not bring it) is
\* reported again
C28_WithheldIffInPreviousBatch ==
    [][CycleEnds(1) =>
          \A k \in 1..Len(last_processed') :
             ~IsReported(last_processed'[k]) <=> last_processed'[k].txid \in prev_txids]_vars

\* for the records that carry a raw txid the diff is one-step as claimed
OneStepDiffForRawTxids ==
    [][CycleEnds(1) =>
          \A k \in 1..Len(last_processed') :
             RawTxid(last_processed'[k]) # None =>
                (~IsReported(last_processed'[k])
                    <=> last_processed'[k].txid \in prev_txids)]_vars

---------------------------------------------------------------------------
(* Specification SpecFmt: any sequence of _format_value calls on decimal
   values of either sign with up to MaxScale fractional digits *)

MaxCoeff == 25
MaxScale == 8

FormatValues ==
    {NoValue} \cup {Dec(neg, coeff, scale) :
                       neg \in BOOLEAN, coeff \in 0..MaxCoeff, scale \in 0..MaxScale}

\* a call DataProcessor._format_value(value, None)
FormatValue(value) ==
    /\ formatted' = [value |-> value, text |-> format_value(value), called |-> TRUE]
    /\ UNCHANGED <<addrVars, tokVars, histVars, procVars, monVars, concVars, batchVars,
                   filtVars, synthVars, roundVars, callVars, pairVars, shareVars, queryVars>>

NextFmt == \E value \in FormatValues : FormatValue(value)

SpecFmt == Init /\ [][NextFmt]_vars

\* a decimal value was formatted
FormattedDecimal == formatted.called /\ formatted.value.kind = "dec"

\* what the value is to render as: "0" when it is zero, the marker when it is
\* not zero and rounds to zero, else the rounded value without trailing zeros
Rendering(value) ==
    IF value.coeff = 0 THEN "0"
    ELSE IF Quantize6(value) = 0 THEN ">0"
    ELSE Stripped(Fixed6(value.neg, Quantize6(value)))

\* C32: without decimals scaling a value that is exactly zero renders as "0",
\* a non-zero value of either sign that rounds half-up to zero at 6 fractional
\* digits renders as ">0", and any other value renders as its rounded value
\* with trailing zeros trimmed
C32_TinyValuesRenderAsMarker ==
    FormattedDecimal => formatted.text = Rendering(formatted.value)

\* for the values that are not negative the rendering is the stated one
NonNegativeValuesRenderAsStated ==
    FormattedDecimal /\ ~formatted.value.neg => formatted.text = Rendering(formatted.value)

\* 0.0000004 renders as the marker, 0.0000015 as 0.000002, 2.0 as 2
RoundingCases ==
    /\ format_value(Dec(FALSE, 4, 7)) = ">0"
    /\ format_value(Dec(FALSE, 5, 7)) = "0.000001"
    /\ format_value(Dec(FALSE, 15, 7)) = "0.000002"
    /\ format_value(Dec(FALSE, 14, 7)) = "0.000001"
    /\ format_value(Dec(FALSE, 20, 1)) = "2"
    /\ format_value(Dec(TRUE, 15, 1)) = "-1.5"
    /\ format_value(Dec(FALSE, 0, 3)) = "0"
    /\ format_value(Dec(TRUE, 1, 7)) = "-0"
    /\ format_value(Dec(TRUE, 0, 0)) = "-0"
    /\ format_value(NoValue) = NA

---------------------------------------------------------------------------
(* Further claims checked under SpecAddr *)

\* this step is an update, without entity or label metadata, of an identifier
\* that is stored with is_real true
SightingWithoutMetadata ==
    /\ last_call'.op = "AddressCache.update"
    /\ Effective(last_call'.identifier)
    /\ ~last_call'.is_real_name
    /\ last_call'.identifier \in DOMAIN cache
    /\ cache[last_call'.identifier].is_real

\* C33: display names are only upgraded: an identifier whose stored name came
\* from entity or label metadata keeps that name when it is seen again
\* without metadata (a bare address, or the display name "N/A"), and stays
\* resolvable through get_identifiers_by_name under it
C33_DisplayNameIsOnlyUpgraded ==
    [][SightingWithoutMetadata =>
          /\ get_name(cache', last_call'.identifier)
                = get_name(cache, last_call'.identifier)
          /\ last_call'.identifier
                \in get_identifiers_by_name(name_to_ids',
                                            get_name(cache, last_call'.identifier))]_vars

\* the flag of such an identifier stays true while its name is replaced
FlagKeptNameReplaced ==
    [][SightingWithoutMetadata =>
          /\ cache'[last_call'.identifier].is_real
          /\ get_name(cache', last_call'.identifier)
                = NameToStore(last_call'.identifier, last_call'.display_name)]_vars

\* the names get_all_names() returns
AllNames(c, n2i) == Elements(get_all_names(c, n2i))

\* C34: every name get_all_names() returns is a real name, a display name
\* that some update supplied together with is_real_name = True: a name enters
\* the result only by an update that supplies it with is_real_name = True, so
\* a name only ever supplied with is_real_name = False never appears
C34_AllNamesWereSuppliedAsReal ==
    [][\A n \in AllNames(cache', name_to_ids') \ AllNames(cache, name_to_ids) :
          /\ last_call'.op = "AddressCache.update"
          /\ last_call'.is_real_name
          /\ n = NameToStore(last_call'.identifier, last_call'.display_name)]_vars

\* a name enters the result only as the name just stored for the updated
\* identifier, whose flag is true
NamesEnterByTheUpdatedIdentifier ==
    [][\A n \in AllNames(cache', name_to_ids') \ AllNames(cache, name_to_ids) :
          /\ last_call'.op = "AddressCache.update"
          /\ n = get_name(cache', last_call'.identifier)
          /\ cache'[last_call'.identifier].is_real]_vars

---------------------------------------------------------------------------
(* Further claims checked under SpecTok *)

\* C35: the reverse index of TokenCache matches the current symbols: every
\* token id in get_ids(s) has a current get_symbol that belongs to the synonym
\* group of s, so a token id registered again under a symbol of another group
\* is no longer in the buckets of its former symbol
C35_TokenBucketsMatchCurrentSymbols ==
    \A s \in SymbolQueries :
       \A t \in get_ids(symbol_to_ids, s) :
          /\ get_symbol(id_to_symbol, t) # None
          /\ SameGroup(get_symbol(id_to_symbol, t), s)

\* every token id is in the buckets of the group of its current symbol, and
\* every token id in a bucket is a key of the id map
CurrentSymbolIsIndexed ==
    /\ \A t \in DOMAIN id_to_symbol : t \in get_ids(symbol_to_ids, id_to_symbol[t])
    /\ \A s \in DOMAIN symbol_to_ids : symbol_to_ids[s] \subseteq DOMAIN id_to_symbol

---------------------------------------------------------------------------
(* The record and the cache, checked under SpecProc *)

\* the cache names the identifier by the display name and finds it under it
Agree(identifier, display) ==
    /\ get_name(cache, identifier) = display
    /\ identifier \in get_identifiers_by_name(name_to_ids, display)

\* C36 as stated: after process_transaction returns a record, each side that
\* has an identifier agrees with the cache, get_name of the identifier being
\* the side's display name and get_identifiers_by_name of the display name
\* holding the identifier, also when both sides carry the same address with
\* different metadata
C36_RecordAndCacheAgree ==
    Processed =>
       /\ last_record.from_identifier # None =>
             Agree(last_record.from_identifier, last_record.from_display)
       /\ last_record.to_identifier # None =>
             Agree(last_record.to_identifier, last_record.to_display)

\* the side has an identifier and a display name that the cache stores as
\* they are: neither is the sentinel "N/A"
Storable(identifier, display) == identifier \notin {None, NA} /\ display # NA

\* C36 as amended: the to side always agrees with the cache, and the from
\* side agrees unless the to side has the same identifier under another
\* display name (identifiers and display names other than the sentinel "N/A")
C36_LastResolvedSideAgrees ==
    Processed =>
       /\ Storable(last_record.to_identifier, last_record.to_display) =>
             Agree(last_record.to_identifier, last_record.to_display)
       /\ (/\ Storable(last_record.from_identifier, last_record.from_display)
           /\ (last_record.from_identifier = last_record.to_identifier
                  => last_record.from_display = last_record.to_display))
             => Agree(last_record.from_identifier, last_record.from_display)

\* both sides of the record carry the same address, the from side under an
\* entity and a label, the to side under another entity: the cache has the to
\* side's name
C36_Witness ==
    /\ Processed
    /\ last_record.from_identifier = AddrPool[1]
    /\ last_record.to_identifier = AddrPool[1]
    /\ last_record.from_display = "Binance (Cex) - Hot Wallet"
    /\ last_record.to_display = "Kraken"
    /\ Agree(AddrPool[1], "Kraken")
    /\ "Binance (Cex) - Hot Wallet" \notin DOMAIN name_to_ids

---------------------------------------------------------------------------
(* Specification SpecShare: the caller's thread runs set_filters while the
   polling thread builds the parameters of its next request from the same
   TransactionFilter object (arkham_monitor.py lines 56, 98 and 125); no lock
   guards the filter, and the threads interleave between statements.  The
   address cache learns names in the polling thread, so not while that thread
   is inside get_api_params *)

\* the arguments of the set_filters calls
ShareArgs ==
    {FilterArgs(Usd(1000000, 0), "1d", NoList, List(<<"Kraken">>), NoList),
     FilterArgs(Usd(0, 5), None, NoList, List(<<"Binance">>), List(<<"Kraken">>))}

\* what the address cache holds when the calls are made
ShareLearnt == {<<"0xB2", "Kraken">>, <<"0xA1", "Binance">>}

\* the caller's thread enters filter.update(...)
SetFiltersCall(args) ==
    /\ setting.line = 0
    /\ setting' = [line |-> 37, args |-> args]
    /\ polling' = [polling EXCEPT !.overlapped = @ \/ polling.line # 0]
    /\ UNCHANGED <<addrVars, tokVars, histVars, procVars, monVars, concVars, batchVars,
                   filtVars, synthVars, roundVars, callVars, pairVars, fmtVars, queryVars, completed>>

\* the caller's thread runs the next statement of update; after the last one
\* the update is complete
SetFiltersStep ==
    /\ setting.line # 0
    /\ filt' = update_statement(setting.line, filt, name_to_ids, symbol_to_ids,
                                setting.args)
    /\ setting' = [setting EXCEPT !.line = update_next(setting.line)]
    /\ completed' = IF update_next(setting.line) = 0
                    THEN completed \cup {get_api_params(filt', DEFAULT_LIMIT)}
                    ELSE completed
    /\ UNCHANGED <<addrVars, tokVars, histVars, procVars, monVars, concVars, batchVars,
                   filt_op, last_args, keys_before,
                   synthVars, roundVars, callVars, pairVars, fmtVars, queryVars, polling>>

\* the polling thread enters filter.get_api_params(limit) for a new cycle
PollCall ==
    /\ polling.line = 0
    /\ polling' = [line |-> 55, params |-> [k \in {"limit"} |-> IntVal(DEFAULT_LIMIT)],
                   returned |-> FALSE, overlapped |-> setting.line # 0]
    /\ UNCHANGED <<addrVars, tokVars, histVars, procVars, monVars, concVars, batchVars,
                   filtVars, synthVars, roundVars, callVars, pairVars, fmtVars, queryVars,
                   setting, completed>>

\* the polling thread runs the next test of get_api_params; after the last
\* one the parameters of the cycle are returned
PollRead ==
    /\ polling.line # 0
    /\ polling' = [polling EXCEPT
                     !.params = params_statement(polling.line, filt, @),
                     !.line = params_next(polling.line),
                     !.returned = params_next(polling.line) = 0]
    /\ UNCHANGED <<addrVars, tokVars, histVars, procVars, monVars, concVars, batchVars,
                   filtVars, synthVars, roundVars, callVars, pairVars, fmtVars, queryVars,
                   setting, completed>>

NextShare ==
    \/ \E args \in ShareArgs : SetFiltersCall(args)
    \/ SetFiltersStep
    \/ PollCall
    \/ PollRead
    \/ \E a \in ShareLearnt : polling.line = 0 /\ FilterAddressLearnt(a[1], a[2])

SpecShare == Init /\ [][NextShare]_vars

\* the parameters the update in progress gives once it is complete
Pending ==
    IF setting.line = 0 THEN {}
    ELSE {get_api_params(TransactionFilter_update(filt, name_to_ids, symbol_to_ids,
                                                  setting.args), DEFAULT_LIMIT)}

\* C37: a set_filters call that runs concurrently with a polling cycle never
\* makes the query parameters of the cycle mix criteria of two update calls:
\* the parameters get_api_params returns to the cycle are those of the filter
\* as one complete update left it, or as the update in progress leaves it
C37_CycleParamsAreOfOneUpdate ==
    polling.returned => polling.params \in completed \cup Pending

\* when no update runs while get_api_params does, the parameters are those of
\* one complete update
UndisturbedParamsAreOfOneUpdate ==
    polling.returned /\ ~polling.overlapped => polling.params \in completed

\* read in one piece, the filter gives the parameters the statements give
ParamsStatementsAreGetApiParams ==
    params_statement(87, filt,
      params_statement(78, filt,
        params_statement(64, filt,
          params_statement(57, filt,
            params_statement(55, filt, [k \in {"limit"} |-> IntVal(DEFAULT_LIMIT)])))))
       = get_api_params(filt, DEFAULT_LIMIT)

---------------------------------------------------------------------------
(* Specification SpecQuery: the caches learn addresses and tokens, and in
   between every query operation is called, with known and unknown names and
   symbols *)

QueryAddressesLearnt == {<<"0xA1", "Kraken", TRUE>>, <<"0xB2", "Kraken", FALSE>>,
                         <<"0xA1", "0xA1", FALSE>>}
QueryTokensLearnt == {<<"bitcoin", "BTC">>, <<"tether", "usdt">>}

Queries ==
    {Query("get_name", i) : i \in {"0xA1", "0xZZ"}}
    \cup {Query("get_identifiers_by_name", n) : n \in {"Kraken", "Nobody"}}
    \cup {Query("find_identifiers_by_names", l) :
             l \in {<<>>, <<"Kraken", "Nobody">>}}
    \cup {Query("get_all_names", None)}
    \cup {Query("get_symbol", t) : t \in {"bitcoin", "dogecoin"}}
    \cup {Query("get_ids", sym) : sym \in {"btc", "doge"}}
    \cup {Query("find_ids_by_symbols", l) : l \in {<<>>, <<"usdt", "doge">>}}
    \cup {Query("get_all_symbols", None), Query("get_symbol_to_ids_map", None),
          Query("filter.get_api_params", None)}
    \cup {Query("filter.update", a) :
             a \in {NoArgs,
                    FilterArgs(Usd(0, 5), "1d", List(<<"doge", "BTC">>),
                               List(<<"Nobody">>), List(<<"Kraken", "Somebody">>))}}

\* the address cache learns a name
QueryAddressLearnt(identifier, display_name, is_real_name) ==
    LET st == AddressCache_update([cache |-> cache, name_to_ids |-> name_to_ids],
                                  identifier, display_name, is_real_name)
    IN  /\ cache' = st.cache
        /\ name_to_ids' = st.name_to_ids
        /\ asked' = NoQuery
        /\ UNCHANGED <<tokVars, histVars, procVars, monVars, concVars, batchVars,
                       filtVars, synthVars, roundVars, callVars, pairVars,
                       fmtVars, shareVars>>

\* the token cache learns a token
QueryTokenLearnt(token_id, symbol) ==
    LET st == TokenCache_update([id_to_symbol |-> id_to_symbol,
                                 symbol_to_ids |-> symbol_to_ids], token_id, symbol)
    IN  /\ id_to_symbol' = st.id_to_symbol
        /\ symbol_to_ids' = st.symbol_to_ids
        /\ asked' = NoQuery
        /\ UNCHANGED <<addrVars, histVars, procVars, monVars, concVars, batchVars,
                       filtVars, synthVars, roundVars, callVars, pairVars,
                       fmtVars, shareVars>>

\* a query is made: the reverse indexes are as its lookups leave them, the
\* filter as update leaves it; the id maps are read with dict.get and by
\* iteration only
Ask(q) ==
    /\ asked' = q
    /\ name_to_ids' = name_to_ids_after(q, name_to_ids)
    /\ symbol_to_ids' = symbol_to_ids_after(q, symbol_to_ids)
    /\ filt' = IF q.op = "filter.update"
               THEN TransactionFilter_update(filt, name_to_ids', symbol_to_ids', q.arg)
               ELSE filt
    /\ UNCHANGED <<cache, id_to_symbol, histVars, procVars, monVars, concVars, batchVars,
                   filt_op, last_args, keys_before, synthVars, roundVars, callVars,
                   pairVars, fmtVars, shareVars>>

NextQuery ==
    \/ \E a \in QueryAddressesLearnt : QueryAddressLearnt(a[1], a[2], a[3])
    \/ \E t \in QueryTokensLearnt : QueryTokenLearnt(t[1], t[2])
    \/ \E q \in Queries : Ask(q)

SpecQuery == Init /\ [][NextQuery]_vars

\* C38: the query operations of the caches and TransactionFilter.update /
\* get_api_params are read-only: a step that makes a query leaves both maps of
\* both caches as they were, also for unknown names and symbols, for which no
\* empty bucket enters a reverse index
C38_QueriesAreReadOnly ==
    [][asked'.op # "none" => UNCHANGED <<addrVars, tokVars>>]_vars

\* the filter was updated with names and symbols the populated caches do not
\* know: no bucket exists for them
C38_Witness ==
    /\ asked.op = "filter.update"
    /\ GivenList(asked.arg.from_address_names)
    /\ filt.allowed_from_ids = Active({})
    /\ filt.allowed_to_ids = Active({"0xB2"})
    /\ filt.allowed_token_ids = Active({"bitcoin"})
    /\ DOMAIN name_to_ids = {"Kraken", "0xA1"}
    /\ "DOGE" \notin DOMAIN symbol_to_ids

====
